---- MODULE Spec2Model ----
(***************************************************************************)
(* canopen-rs: the asynchronous SDO correlation engine (FrameHandler and   *)
(* its background FrameReceiver, src/src/frame_handler.rs).                *)
(*                                                                         *)
(* Every sdo_read call is a task that runs the three steps of the method   *)
(* body (add_waiting_item, send_frame, await the oneshot receiver); the    *)
(* background task runs one loop iteration per frame.  The callers are not *)
(* part of the repository: following the design's scheduling model they    *)
(* are taken to be any number of tasks whose calls may overlap.  Note that *)
(* sdo_read takes `&mut self` (frame_handler.rs:77), so callers written in *)
(* safe Rust can hold only one live sdo_read future per handler and can    *)
(* overlap calls only by dropping (cancelling) the earlier future, which   *)
(* is the DropFuture action.                                               *)
(*                                                                         *)
(* Spec is the handler with its sdo_read calls; NmtSpec adds the           *)
(* nmt_node_control calls.  The pure functions are evaluated over their    *)
(* inputs: CobSpec applies CommunicationObject::new and as_cob_id          *)
(* (src/src/id.rs) to every 16-bit identifier and every value, FrameSpec   *)
(* applies the frame codecs (src/src/frame/*.rs) to a sample of frame      *)
(* values and of payloads, BoundarySpec applies the request builders and   *)
(* the conversions to and from CAN frames (src/src/socketcan/frame.rs) to  *)
(* a sample of requests and of CAN frames.                                 *)
(***************************************************************************)
EXTENDS Naturals, Sequences, FiniteSets, TLC

\* ------------------------------------------------------------------ bounds
MaxCalls == 2    \* sdo_read calls issued on the handler in one run
MaxFrames == 2   \* results wait_for_frame can yield in one run

Calls == 1..MaxCalls

\* ---------------------------------------------------------- data universe
\* ObjectDictionaryAddress { node_id, index, sub_index }
K1 == [node_id |-> 1, index |-> 4120, sub_index |-> 2]
K2 == [node_id |-> 1, index |-> 4120, sub_index |-> 1]
Keys == {K1, K2}

NoKey == [node_id |-> 255, index |-> 0, sub_index |-> 0]

\* The value a node holds at an object-dictionary address (the bytes an
\* InitiateUpload response for that address carries).
ObjectValue(k) == IF k = K1 THEN <<146, 1, 2, 0>> ELSE <<232, 3>>

\* SDO_ERR_ACCESS_RO as carried in the data field of an abort frame
AbortCodeBytes == <<2, 0, 1, 6>>

\* SdoFrame values as FrameHandler sees them: direction, command specifier,
\* node_id, index, sub_index and data.
SdoFrame(direction, ccs, k, data) ==
    [type |-> "SdoFrame", direction |-> direction, ccs |-> ccs,
     node_id |-> k.node_id, index |-> k.index, sub_index |-> k.sub_index,
     data |-> data]

InitiateUploadResponse(k) == SdoFrame("Tx", "InitiateUpload", k, ObjectValue(k))
AbortTransfer(k) == SdoFrame("Tx", "AbortTransfer", k, AbortCodeBytes)
InitiateDownloadResponse(k) == SdoFrame("Tx", "InitiateDownload", k, <<>>)

\* SdoFrame::new_sdo_read_frame: the request, client to server
new_sdo_read_frame(k) == SdoFrame("Rx", "InitiateUpload", k, <<>>)

SdoFrames ==
    UNION {{InitiateUploadResponse(k), AbortTransfer(k),
            InitiateDownloadResponse(k), new_sdo_read_frame(k)} : k \in Keys}

\* The other variants of CanOpenFrame
OtherFrames ==
    {[type |-> t] : t \in {"NmtNodeControlFrame", "SyncFrame",
                           "EmergencyFrame", "NmtNodeMonitoringFrame"}}

\* What wait_for_frame can return: Ok(frame), or Err: the socket read failed
\* ("Io"), or the frame read does not decode (a PDO or LSS frame gives
\* NotImplemented, an extended identifier CanFdNotSupported).
WaitResults ==
    {[ok |-> TRUE, frame |-> f] : f \in SdoFrames \cup OtherFrames}
    \cup {[ok |-> FALSE, err |-> e] : e \in {"Io", "NotImplemented"}}

NoFrame == [ok |-> FALSE, err |-> "none"]

\* Mutation of KeyOf: the sub_index is left out of the lookup key.
KeyOf_without_sub_index(frame) ==
    CHOOSE k \in Keys : k.node_id = frame.node_id /\ k.index = frame.index

KeyOf(frame) ==
    [node_id |-> frame.node_id, index |-> frame.index,
     sub_index |-> frame.sub_index]

\* ------------------------------------------------------------------ state
VARIABLES
    waiting_table,  \* FrameHandler.waiting_table: key -> call whose Sender it holds, 0 = no entry
    pc,             \* position of each sdo_read call
    key,            \* the (node_id, index, sub_index) of each call
    chan,           \* the oneshot channel each call created
    result,         \* what each call returned
    sent,           \* calls whose InitiateUploadRequest was handed to the transport
    next_frame,     \* what the next wait_for_frame will return, NoFrame = nothing arrived yet
    nread,          \* number of results wait_for_frame has returned
    rx,             \* the background task: "running", or why it terminated
    resolvedBy,     \* history: the read that resolved each call
    wire,           \* the send_frame calls nmt_node_control made: their number, and the last one
    codec           \* the codec function under evaluation: its input and its output

vars == <<waiting_table, pc, key, chan, result, sent, next_frame, nread, rx,
          resolvedBy, wire, codec>>

Open == [state |-> "open", value |-> <<>>]
NoChannel == [state |-> "none", value |-> <<>>]
Pending == [tag |-> "Pending"]
Ok(data) == [tag |-> "Ok", data |-> data]
Err(e) == [tag |-> "Err", err |-> e]
Unresolved == [idx |-> 0, frame |-> NoFrame]

\* No NMT command has been handed to the transport.
NothingSent == [sends |-> 0, last |-> [frame |-> NoFrame]]

\* FrameHandler::new: an empty table, a running FrameReceiver, nothing sent.
HandlerInit ==
    /\ waiting_table = [k \in Keys |-> 0]
    /\ pc = [c \in Calls |-> "idle"]
    /\ key = [c \in Calls |-> NoKey]
    /\ chan = [c \in Calls |-> NoChannel]
    /\ result = [c \in Calls |-> Pending]
    /\ sent = {}
    /\ next_frame = NoFrame
    /\ nread = 0
    /\ rx = "running"
    /\ resolvedBy = [c \in Calls |-> Unresolved]
    /\ wire = NothingSent

\* No codec function is under evaluation while the handler runs.
NoCodec == [fn |-> "none"]

Init == HandlerInit /\ codec = NoCodec

\* The Receiver half of a call's channel lives in the sdo_read future from
\* add_waiting_item until the future returns or is dropped.
ReceiverAlive(c) == pc[c] \in {"registered", "awaiting"}


\* ------------------------------------------------- FrameHandler::sdo_read
\* Mutation of insert: a Sender already stored for the key is kept.
insert_if_absent(table, k, c) ==
    IF table[k] = 0 THEN [table EXCEPT ![k] = c] ELSE table

\* Mutation of insert: the Sender is never stored.
insert_nothing(table, k, c) == table

\* HashMap::insert: the new Sender takes the slot of the key.
insert(table, k, c) == [table EXCEPT ![k] = c]

\* Mutation of DropReplaced: the replaced Sender is kept alive.
DropReplaced_kept(channels, previous) == channels

\* The value insert returns, Some(previous Sender) or None (0), is not bound
\* to anything: the previous Sender is dropped unsent, which completes its
\* channel as cancelled.
DropReplaced(channels, previous) ==
    [b \in Calls |->
        IF b = previous /\ channels[b].state = "open"
        THEN [state |-> "cancelled", value |-> <<>>]
        ELSE channels[b]]

\* let response_receiver = self.add_waiting_item(node_id, index, sub_index).await;
\* Calls are numbered in the order in which they register.
add_waiting_item(c, k) ==
    /\ pc[c] = "idle"
    /\ \A b \in Calls : b < c => pc[b] # "idle"
    /\ waiting_table' = insert(waiting_table, k, c)
    /\ chan' = [DropReplaced(chan, waiting_table[k]) EXCEPT ![c] = Open]
    /\ key' = [key EXCEPT ![c] = k]
    /\ pc' = [pc EXCEPT ![c] = "registered"]
    /\ UNCHANGED <<wire, codec, result, sent, next_frame, nread, rx, resolvedBy>>

\* Mutation of send_frame_ok: the call returns once its request is sent,
\* without waiting for the response.
send_frame_ok_without_wait(c) ==
    /\ pc[c] = "registered"
    /\ sent' = sent \cup {c}
    /\ result' = [result EXCEPT ![c] = Ok(<<>>)]
    /\ pc' = [pc EXCEPT ![c] = "done"]
    /\ UNCHANGED <<wire, codec, waiting_table, key, chan, next_frame, nread, rx,
                   resolvedBy>>

\* self.interface.send_frame(request_frame.into()).await?  returning Ok
send_frame_ok(c) ==
    /\ pc[c] = "registered"
    /\ sent' = sent \cup {c}
    /\ pc' = [pc EXCEPT ![c] = "awaiting"]
    /\ UNCHANGED <<wire, codec, waiting_table, key, chan, result, next_frame, nread, rx,
                   resolvedBy>>

\* Mutation of send_frame_err: the error is swallowed and the call goes on
\* to wait for a response.
send_frame_err_ignored(c) ==
    /\ pc[c] = "registered"
    /\ pc' = [pc EXCEPT ![c] = "awaiting"]
    /\ UNCHANGED <<wire, codec, waiting_table, key, chan, result, sent,
                   next_frame, nread, rx, resolvedBy>>

\* ... returning Err: `?` returns the transport's error; response_receiver is
\* dropped with the frame of the call, the table is not touched.
send_frame_err(c) ==
    /\ pc[c] = "registered"
    /\ result' = [result EXCEPT ![c] = Err("Transport")]
    /\ pc' = [pc EXCEPT ![c] = "done"]
    /\ UNCHANGED <<wire, codec, waiting_table, key, chan, sent, next_frame, nread, rx,
                   resolvedBy>>

\* Mutation of Poll: a cancelled channel yields an empty payload.
Poll_cancel_as_empty(channel) ==
    CASE channel.state = "sent" -> Ok(channel.value)
      [] channel.state = "cancelled" -> Ok(<<>>)
      [] OTHER -> Pending

\* Mutation of Poll: the wait gives up on a channel that is still open.
Poll_with_timeout(channel) ==
    CASE channel.state = "sent" -> Ok(channel.value)
      [] OTHER -> Err("NotImplemented")

\* response_receiver.await.or(Err(Error::NotImplemented)): Ready(Ok(data))
\* once the Sender has sent, Ready(Err(Canceled)) once the Sender has been
\* dropped unsent, Pending otherwise.
Poll(channel) ==
    CASE channel.state = "sent" -> Ok(channel.value)
      [] channel.state = "cancelled" -> Err("NotImplemented")
      [] OTHER -> Pending

response_receiver_await(c) ==
    /\ pc[c] = "awaiting"
    /\ Poll(chan[c]) # Pending
    /\ result' = [result EXCEPT ![c] = Poll(chan[c])]
    /\ pc' = [pc EXCEPT ![c] = "done"]
    /\ UNCHANGED <<wire, codec, waiting_table, key, chan, sent, next_frame, nread, rx,
                   resolvedBy>>

\* Mutation of DropFuture: cancellation also takes the entry out of the table.
DropFuture_with_cleanup(c) ==
    /\ ReceiverAlive(c)
    /\ pc' = [pc EXCEPT ![c] = "dropped"]
    /\ waiting_table' = [k \in Keys |->
            IF waiting_table[k] = c THEN 0 ELSE waiting_table[k]]
    /\ UNCHANGED <<wire, codec, key, chan, result, sent, next_frame, nread, rx, resolvedBy>>

\* The caller drops the future of a call at one of its await points
\* (cancellation): the Receiver is dropped with it, nothing else runs.
DropFuture(c) ==
    /\ ReceiverAlive(c)
    /\ pc' = [pc EXCEPT ![c] = "dropped"]
    /\ UNCHANGED <<wire, codec, waiting_table, key, chan, result, sent, next_frame, nread,
                   rx, resolvedBy>>

\* ------------------------------------------------------------ transport
\* A frame (or a failure) reaches the socket: it is what the next
\* wait_for_frame returns.
Arrive(res) ==
    /\ next_frame = NoFrame
    /\ nread < MaxFrames
    /\ next_frame' = res
    /\ UNCHANGED <<wire, codec, waiting_table, pc, key, chan, result, sent, nread, rx,
                   resolvedBy>>

\* ---------------------------------------------------------- FrameReceiver
\* Mutation of Dispatch: anything but an SDO frame stops the task.
Dispatch_sdo_only(res) ==
    IF ~res.ok THEN "panic"
    ELSE IF res.frame.type = "SdoFrame" THEN "sdo"
    ELSE "panic"

\* Mutation of Dispatch: a failed wait_for_frame is logged and the loop goes on.
Dispatch_log_errors(res) ==
    IF ~res.ok THEN "log"
    ELSE IF res.frame.type = "SdoFrame" THEN "sdo"
    ELSE "log"

\* let frame = interface.wait_for_frame().await.unwrap();
\* if let CanOpenFrame::SdoFrame(frame) = frame { .. } else { println!(..) }
Dispatch(res) ==
    IF ~res.ok THEN "panic"
    ELSE IF res.frame.type = "SdoFrame" THEN "sdo"
    ELSE "log"

\* Mutation of remove: the entry is looked up but left in the table.
remove_nothing(table, k) == table

\* waiting_table.lock().await.remove(&ObjectDictionaryAddress { .. })
remove(table, k) == [table EXCEPT ![k] = 0]

\* Mutation of send: the value is stored even when the Receiver is gone.
send_without_receiver(c, data) == [state |-> "sent", value |-> data]

\* sender.send(frame.data): Err(data) when the Receiver is gone
send(c, data) ==
    IF ReceiverAlive(c)
    THEN [state |-> "sent", value |-> data]
    ELSE [state |-> "failed", value |-> <<>>]

\* One iteration of the loop of the background task.
FrameReceiver ==
    /\ rx = "running"
    /\ next_frame # NoFrame
    /\ nread' = nread + 1
    /\ next_frame' = NoFrame
    /\ LET kind == Dispatch(next_frame) IN
       IF kind = "panic"
       THEN /\ rx' = "wait_for_frame failed"
            /\ UNCHANGED <<waiting_table, chan, resolvedBy>>
       ELSE IF kind = "sdo"
       THEN LET k == KeyOf(next_frame.frame)
                c == waiting_table[k]
            IN  IF c # 0
                THEN /\ waiting_table' = remove(waiting_table, k)
                     /\ chan' = [chan EXCEPT ![c] = send(c, next_frame.frame.data)]
                     /\ IF chan'[c].state = "sent"
                        THEN /\ resolvedBy' = [resolvedBy EXCEPT ![c] =
                                    [idx |-> nread + 1, frame |-> next_frame]]
                             /\ rx' = rx
                        ELSE /\ rx' = "send failed"
                             /\ UNCHANGED resolvedBy
                ELSE UNCHANGED <<waiting_table, chan, resolvedBy, rx>>
       ELSE UNCHANGED <<waiting_table, chan, resolvedBy, rx>>
    /\ UNCHANGED <<wire, codec, pc, key, result, sent>>

\* ---------------------------------------------------------- specification
Next ==
    \/ \E c \in Calls, k \in Keys : add_waiting_item(c, k)
    \/ \E c \in Calls : send_frame_ok(c)
    \/ \E c \in Calls : send_frame_err(c)
    \/ \E c \in Calls : response_receiver_await(c)
    \/ \E c \in Calls : DropFuture(c)
    \/ \E res \in WaitResults : Arrive(res)
    \/ FrameReceiver

Spec == Init /\ [][Next]_vars

TypeOK ==
    /\ waiting_table \in [Keys -> 0..MaxCalls]
    /\ pc \in [Calls -> {"idle", "registered", "awaiting", "done", "dropped"}]
    /\ key \in [Calls -> Keys \cup {NoKey}]
    /\ \A c \in Calls : chan[c].state \in {"none", "open", "sent", "cancelled", "failed"}
    /\ sent \subseteq Calls
    /\ next_frame \in WaitResults \cup {NoFrame}
    /\ nread \in 0..MaxFrames
    /\ rx \in {"running", "wait_for_frame failed", "send failed"}

\* ------------------------------------------------ vocabulary of the claims
IsSdoResult(res) == res.ok /\ res.frame.type = "SdoFrame"

\* res is an SDO frame carrying exactly the address k (field by field)
CarriesKey(res, k) ==
    /\ IsSdoResult(res)
    /\ res.frame.node_id = k.node_id
    /\ res.frame.index = k.index
    /\ res.frame.sub_index = k.sub_index

Registered(c) == pc[c] # "idle"
Resolved(c) == resolvedBy[c].idx # 0

\* this step is one iteration of the background task
ReceiverStep == nread' = nread + 1

\* this step is call b registering the address k
RegisterStep(b, k) == pc[b] = "idle" /\ pc'[b] = "registered" /\ key'[b] = k

PairwiseDistinctKeys ==
    \A a, b \in Calls : (a # b /\ Registered(a) /\ Registered(b)) => key[a] # key[b]

\* ---------------------------------------------------------------------- C1
\* C1: whatever the interleaving of the calls and the order of the frames, a
\* call that returns Ok returns the data of a frame that was read and carries
\* the call's own (node_id, index, sub_index), never the payload of a frame
\* with another address; with pairwise distinct addresses no signal is ever
\* displaced, so no call ends with the generic error.
C1_OwnResponseOnly ==
    /\ \A c \in Calls :
          /\ result[c].tag = "Ok" =>
                /\ Resolved(c)
                /\ result[c].data = resolvedBy[c].frame.frame.data
          /\ Resolved(c) =>
                /\ CarriesKey(resolvedBy[c].frame, key[c])
                /\ chan[c] = [state |-> "sent",
                              value |-> resolvedBy[c].frame.frame.data]
    /\ PairwiseDistinctKeys =>
          \A c \in Calls : result[c] # Err("NotImplemented")

\* Two overlapping calls on distinct addresses, answered in reverse order,
\* each returned the value of its own address.
C1_Witness ==
    /\ key[1] = K1 /\ key[2] = K2
    /\ resolvedBy[1] = [idx |-> 2, frame |-> [ok |-> TRUE, frame |-> InitiateUploadResponse(K1)]]
    /\ resolvedBy[2] = [idx |-> 1, frame |-> [ok |-> TRUE, frame |-> InitiateUploadResponse(K2)]]
    /\ result[1] = Ok(ObjectValue(K1))
    /\ result[2] = Ok(ObjectValue(K2))

\* ---------------------------------------------------------------------- C2
\* C2: a call is resolved at most once and a frame resolves at most one call:
\* the entry is out of the table in the state that follows the resolution, the
\* table never holds a Sender that has been used, and an SDO frame read while
\* its address has no entry resolves nothing.
C2_Inv ==
    /\ \A a, b \in Calls :
          (a # b /\ Resolved(a)) => resolvedBy[a].idx # resolvedBy[b].idx
    /\ \A k \in Keys :
          waiting_table[k] # 0 => chan[waiting_table[k]].state = "open"

C2_Step ==
    /\ \A c \in Calls :
          /\ Resolved(c) => (resolvedBy'[c] = resolvedBy[c] /\ chan'[c] = chan[c])
          /\ (~Resolved(c) /\ Resolved(c)') =>
                (waiting_table'[key[c]] = 0 /\ resolvedBy'[c].idx = nread')
    /\ \A k \in Keys :
          (ReceiverStep /\ CarriesKey(next_frame, k) /\ waiting_table[k] = 0) =>
                (resolvedBy' = resolvedBy /\ chan' = chan)

C2_ResolvedAtMostOnce == []C2_Inv /\ [][C2_Step]_vars

\* A call has been resolved by the first frame, its address is out of the
\* table, and a second response for the same address is about to be read.
C2_Witness ==
    \E c \in Calls :
        /\ resolvedBy[c].idx = 1
        /\ nread = 1
        /\ waiting_table[key[c]] = 0
        /\ next_frame = [ok |-> TRUE, frame |-> InitiateUploadResponse(key[c])]
        /\ rx = "running"

\* ---------------------------------------------------------------------- C3
Displaced(c) == chan[c].state = "cancelled"

C3_Inv ==
    \A c \in Calls :
        Displaced(c) =>
            /\ \E b \in Calls : b > c /\ key[b] = key[c]
            /\ ~Resolved(c)
            /\ result[c].tag # "Ok"
            /\ (pc[c] = "done" /\ c \in sent) => result[c] = Err("NotImplemented")

C3_Step ==
    \A c \in Calls :
        /\ Displaced(c) => Displaced(c)'
        /\ \A b \in Calls :
              (RegisterStep(b, key[c]) /\ waiting_table[key[c]] = c) =>
                  /\ waiting_table'[key[c]] = b
                  /\ chan[c].state = "open" => Displaced(c)'

C4_Inv ==
    \A c \in Calls :
        (pc[c] = "awaiting" /\ chan[c].state = "cancelled") =>
            ENABLED response_receiver_await(c)

C4_Step ==
    \A c \in Calls :
        (pc[c] = "awaiting" /\ chan[c].state = "cancelled" /\ pc'[c] # "awaiting") =>
            \/ pc'[c] = "dropped"
            \/ (pc'[c] = "done" /\ result'[c] = Err("NotImplemented"))

C4_DroppedSignalReturnsError == []C4_Inv /\ [][C4_Step]_vars

\* A call returned the generic error after its Sender was dropped.
C4_Witness ==
    \E c \in Calls :
        /\ pc[c] = "done"
        /\ chan[c].state = "cancelled"
        /\ result[c] = Err("NotImplemented")
        /\ waiting_table[key[c]] \notin {0, c}

\* ---------------------------------------------------------------------- C5
\* C5: only an InitiateUploadResponse (server to client) for its address
\* resolves a call; an AbortTransfer, an InitiateDownloadResponse or a
\* request-direction frame with the same address resolves nothing.
C5_OnlyUploadResponseResolves ==
    \A c \in Calls :
        Resolved(c) =>
            /\ resolvedBy[c].frame.frame.direction = "Tx"
            /\ resolvedBy[c].frame.frame.ccs = "InitiateUpload"

\* ---------------------------------------------------------------------- C6
\* C6: the Sender is in the table before the request is handed to the
\* transport: a call whose request has been sent has a channel, and while
\* that channel is open (neither used nor displaced) the table maps the
\* call's address to it; so an SDO frame for that address read by the
\* background task always finds the entry.
C6_Inv ==
    \A c \in sent :
        /\ chan[c].state # "none"
        /\ chan[c].state = "open" => waiting_table[key[c]] = c

C6_Step ==
    \A c \in sent :
        (ReceiverStep /\ CarriesKey(next_frame, key[c]) /\ chan[c].state = "open") =>
            /\ waiting_table'[key[c]] = 0
            /\ IF ReceiverAlive(c)
               THEN resolvedBy'[c] = [idx |-> nread', frame |-> next_frame]
               ELSE chan'[c].state = "failed"

C6_RegisteredBeforeSend == []C6_Inv /\ [][C6_Step]_vars

\* A response read right after the send found the entry of the call.
C6_Witness ==
    \E c \in sent :
        /\ pc[c] = "awaiting"
        /\ chan[c].state = "sent"
        /\ resolvedBy[c].idx = 1
        /\ waiting_table[key[c]] = 0

\* ---------------------------------------------------------------------- C7
\* C7: an iteration of the background task on a frame that matches no pending
\* address (any frame that is not an SDO frame, or an SDO frame whose address
\* has no entry) changes neither the table nor any call, and the task stays
\* in its loop.
MatchesNothing(res) ==
    /\ res.ok
    /\ \A k \in Keys : CarriesKey(res, k) => waiting_table[k] = 0

C7_UnmatchedFrameChangesNothing ==
    [][(ReceiverStep /\ MatchesNothing(next_frame)) =>
          /\ UNCHANGED <<waiting_table, pc, key, chan, result, resolvedBy>>
          /\ rx' = "running"
          /\ next_frame' = NoFrame]_vars

\* Every frame the run allows has been read, none was for the pending call:
\* the call is still pending, its entry in place, and the task still running.
C7_Witness ==
    /\ nread = MaxFrames
    /\ rx = "running"
    /\ \A c \in Calls : ~Resolved(c)
    /\ pc[1] = "awaiting" /\ chan[1] = Open /\ waiting_table[key[1]] = 1

\* ---------------------------------------------------------------------- C8
\* C8: when wait_for_frame returns an error the background task ends, and a
\* task that has ended stays ended: it reads nothing more and no channel is
\* resolved any more (a frame that arrives stays unread), while sdo_read
\* still registers and sends.
C8_Inv ==
    rx # "running" =>
        \A c \in Calls :
            /\ (pc[c] = "idle" /\ \A b \in Calls : b < c => pc[b] # "idle") =>
                  \A k \in Keys : ENABLED add_waiting_item(c, k)
            /\ pc[c] = "registered" => ENABLED send_frame_ok(c)
            /\ (pc[c] = "awaiting" /\ chan[c] = Open) => result[c] = Pending

C8_Step ==
    /\ (ReceiverStep /\ ~next_frame.ok) => rx' = "wait_for_frame failed"
    /\ rx # "running" =>
          /\ rx' = rx
          /\ nread' = nread
          /\ resolvedBy' = resolvedBy
          /\ \A c \in Calls : chan'[c].state = "sent" => chan[c].state = "sent"

C8_ReceiverErrorStopsCorrelation == []C8_Inv /\ [][C8_Step]_vars

\* The task ended on a failed wait_for_frame; a call registered and sent
\* afterwards is suspended, and the response for it sits unread.
C8_Witness ==
    /\ rx = "wait_for_frame failed"
    /\ nread = 1
    /\ pc[1] = "awaiting" /\ chan[1] = Open /\ 1 \in sent
    /\ next_frame = [ok |-> TRUE, frame |-> InitiateUploadResponse(key[1])]
    /\ pc[2] = "idle"

\* ---------------------------------------------------------------------- C9
\* C9: there is no timeout: a call leaves its suspension only because its
\* channel completed or its caller dropped it, and an open channel completes
\* only when the background task reads an SDO frame with the call's address
\* or another call registers that address.
C9_Step ==
    \A c \in Calls :
        /\ (pc[c] = "awaiting" /\ pc'[c] # "awaiting") =>
              \/ pc'[c] = "dropped"
              \/ chan[c].state \in {"sent", "cancelled"}
        /\ (chan[c].state = "open" /\ chan'[c].state # "open") =>
              \/ ReceiverStep /\ CarriesKey(next_frame, key[c])
              \/ \E b \in Calls : RegisterStep(b, key[c])

C9_Inv ==
    \A c \in Calls :
        (pc[c] = "awaiting" /\ chan[c] = Open) => ~ENABLED response_receiver_await(c)

C9_NoTimeout == []C9_Inv /\ [][C9_Step]_vars

\* A call whose request was sent is still suspended after every frame of the
\* run was read and every other call has ended: nothing is left to wake it.
C9_Witness ==
    /\ nread = MaxFrames
    /\ 1 \in sent
    /\ pc[1] = "awaiting" /\ chan[1] = Open
    /\ \A c \in Calls : c # 1 => pc[c] \in {"done", "dropped"}
    /\ ~ENABLED response_receiver_await(1)

\* --------------------------------------------------------------------- C10
Stale(c) == pc[c] = "dropped" /\ chan[c].state = "open"

\* C10 as stated: the entry of a call whose future was dropped leaves the
\* table only by being overwritten by a later registration of its address.
C10_RemovedOnlyByOverwrite ==
    [][\A c \in Calls :
          (Stale(c) /\ waiting_table[key[c]] = c /\ waiting_table'[key[c]] # c) =>
              waiting_table'[key[c]] # 0]_vars

\* C10 as amended: the entry of a call dropped before resolution stays in the
\* table, and it leaves the table only when a later registration of the same
\* address overwrites it or when the background task reads an SDO frame with
\* that address (it removes the entry, its send fails and the task ends).
C10_Inv == \A c \in Calls : Stale(c) => waiting_table[key[c]] = c

C10_Step ==
    \A c \in Calls :
        (Stale(c) /\ waiting_table'[key[c]] # c) =>
            \/ \E b \in Calls : RegisterStep(b, key[c]) /\ waiting_table'[key[c]] = b
            \/ /\ ReceiverStep /\ CarriesKey(next_frame, key[c])
               /\ waiting_table'[key[c]] = 0
               /\ chan'[c].state = "failed"
               /\ rx' = "send failed"

C10_StaleEntryRemoval == []C10_Inv /\ [][C10_Step]_vars

\* The entry of a dropped call was taken out by the background task, with no
\* later registration of its address.
C10_Witness ==
    /\ pc[1] = "dropped" /\ chan[1].state = "failed"
    /\ waiting_table[key[1]] = 0
    /\ \A c \in Calls : c # 1 => key[c] # key[1]
    /\ rx = "send failed"

\* ---- C12 ----
\* A call whose send_frame fails returns the transport's error in the very
\* step in which the send fails: it is never found waiting for a response
\* without its request having been accepted by the transport, and a call
\* that returned the transport's error never had its request accepted.
SendFailedStep(c) ==
    /\ pc[c] = "registered"
    /\ pc'[c] \notin {"registered", "dropped"}
    /\ c \notin sent'

C12_Inv ==
    \A c \in Calls :
        /\ pc[c] = "awaiting" => c \in sent
        /\ result[c] = Err("Transport") => (pc[c] = "done" /\ c \notin sent)

C12_Step ==
    \A c \in Calls :
        SendFailedStep(c) =>
            /\ pc'[c] = "done"
            /\ result'[c] = Err("Transport")

C12_SendFailureReturnsAtOnce == []C12_Inv /\ [][C12_Step]_vars

C12_Witness ==
    \E c \in Calls :
        /\ pc[c] = "done"
        /\ result[c] = Err("Transport")
        /\ c \notin sent
        /\ chan[c] = Open

\* ------------------------------------------------------- nmt_node_control
MaxNmtCalls == 1   \* nmt_node_control calls issued on the handler in one run

\* NmtCommand and NmtNodeControlAddress
NmtCommand ==
    {"Operational", "Stopped", "PreOperational", "ResetNode",
     "ResetCommunication"}
AllNodes == [kind |-> "AllNodes"]
Node(n) == [kind |-> "Node", node_id |-> n]
NmtAddresses == {AllNodes, Node(1)}

\* NmtNodeControlFrame::new(command, address) as a CanOpenFrame
NmtNodeControlFrame_new(command, address) ==
    [type |-> "NmtNodeControlFrame", command |-> command, address |-> address]

\* What send_frame of the transport can return
SendResults == {Ok(<<>>), Err("Transport")}

\* Mutation of nmt_node_control: the outcome of the send is discarded.
nmt_node_control_discarding(command, address, send_result) ==
    /\ wire.sends < MaxNmtCalls
    /\ wire' = [sends |-> wire.sends + 1,
                last |-> [command |-> command, address |-> address,
                          frame |-> NmtNodeControlFrame_new(command, address),
                          send_result |-> send_result,
                          returned |-> Ok(<<>>)]]
    /\ UNCHANGED <<waiting_table, pc, key, chan, result, sent, next_frame,
                   nread, rx, resolvedBy, codec>>

\* let frame = NmtNodeControlFrame::new(command, address);
\* self.interface.send_frame(frame.into()).await
\* The method takes &self and has the one await: it builds the frame, hands
\* it to the transport and returns what the transport returned.
nmt_node_control(command, address, send_result) ==
    /\ wire.sends < MaxNmtCalls
    /\ wire' = [sends |-> wire.sends + 1,
                last |-> [command |-> command, address |-> address,
                          frame |-> NmtNodeControlFrame_new(command, address),
                          send_result |-> send_result,
                          returned |-> send_result]]
    /\ UNCHANGED <<waiting_table, pc, key, chan, result, sent, next_frame,
                   nread, rx, resolvedBy, codec>>

\* The frames a node sends about its own state, and a failing socket read
NmtReplies ==
    {[ok |-> TRUE, frame |-> [type |-> "NmtNodeMonitoringFrame"]],
     [ok |-> FALSE, err |-> "Io"]}

\* The handler with NMT commands issued among its sdo_read calls.
NmtNext ==
    \/ \E command \in NmtCommand, address \in NmtAddresses,
          send_result \in SendResults :
            nmt_node_control(command, address, send_result)
    \/ \E c \in Calls, k \in Keys : add_waiting_item(c, k)
    \/ \E c \in Calls : send_frame_ok(c)
    \/ \E c \in Calls : send_frame_err(c)
    \/ \E c \in Calls : response_receiver_await(c)
    \/ \E c \in Calls : DropFuture(c)
    \/ \E res \in NmtReplies : Arrive(res)
    \/ FrameReceiver

NmtSpec == Init /\ [][NmtNext]_vars

\* ---- C11 ----
\* Every nmt_node_control call makes exactly one send_frame call, with the
\* NMT control frame of the command and address it was given; the step
\* leaves the pending table, every sdo_read call and the receive side as
\* they were; it returns what the send returned, Ok exactly when the send
\* was Ok; and it is never held back: whatever the table holds and whether
\* or not any frame has arrived, the call can run to its return.
NmtStep == wire' # wire

C11_Step ==
    NmtStep =>
        /\ wire'.sends = wire.sends + 1
        /\ wire'.last.frame =
                [type |-> "NmtNodeControlFrame",
                 command |-> wire'.last.command,
                 address |-> wire'.last.address]
        /\ wire'.last.returned = wire'.last.send_result
        /\ wire'.last.returned = Ok(<<>>) <=> wire'.last.send_result.tag = "Ok"
        /\ UNCHANGED <<waiting_table, pc, key, chan, result, sent>>
        /\ UNCHANGED <<next_frame, nread, rx, resolvedBy>>

C11_Inv ==
    /\ wire.sends > 0 =>
            /\ wire.last.frame.type = "NmtNodeControlFrame"
            /\ wire.last.returned \in SendResults
            /\ wire.last.returned.tag = "Ok" <=> wire.last.send_result.tag = "Ok"
    /\ wire.sends < MaxNmtCalls =>
            \A command \in NmtCommand, address \in NmtAddresses :
                ENABLED nmt_node_control(command, address, Ok(<<>>))

C11_FireAndForget == []C11_Inv /\ [][C11_Step]_vars

C11_Witness ==
    /\ wire.sends > 0
    /\ wire.last.command = "ResetNode"
    /\ wire.last.address = Node(1)
    /\ wire.last.returned = Err("Transport")
    /\ \E c \in Calls : pc[c] = "awaiting" /\ waiting_table[key[c]] = c
    /\ nread = 0

\* ----------------------------------------------------------------- id.rs
\* Integers are the unsigned machine integers of the source; `a & b`
RECURSIVE BitAnd(_, _)
BitAnd(a, b) ==
    IF a = 0 \/ b = 0 THEN 0
    ELSE (a % 2) * (b % 2) + 2 * BitAnd(a \div 2, b \div 2)

U8 == 0..255
U16 == 0..65535

\* Option::unwrap / Result::unwrap on a failure
Panic == [tag |-> "Panic"]

\* Mutation of NodeID_new: the high bit is masked off instead of rejected.
NodeID_new_masking(raw_id) == Ok(BitAnd(raw_id, 127))

\* NodeID::new(raw_id): the high bit must be clear; a NodeID is its raw byte.
NodeID_new(raw_id) ==
    IF BitAnd(raw_id, 128) = 0 THEN Ok(raw_id)
    ELSE Err([kind |-> "InvalidNodeId", value |-> raw_id])

\* The values of NodeID: the bytes NodeID::new accepts
NodeIDs == {raw_id \in U8 : NodeID_new(raw_id).tag = "Ok"}

as_raw(node_id) == node_id

NodeCategories ==
    {"Emergency", "TxPDO1", "RxPDO1", "TxPDO2", "RxPDO2", "TxPDO3", "RxPDO3",
     "TxPDO4", "RxPDO4", "TxSDO", "RxSDO", "NMTNodeMonitoring"}
NodelessCategories ==
    {"NMTNodeControl", "GlobalFailsafeCommand", "Sync", "TimeStamp", "TxLSS",
     "RxLSS"}

Nodeless(cat) == [cat |-> cat]
WithNode(cat, node_id) == [cat |-> cat, node_id |-> node_id]

\* enum CommunicationObject
CommunicationObjects ==
    {Nodeless(cat) : cat \in NodelessCategories}
    \cup {WithNode(cat, n) : cat \in NodeCategories, n \in NodeIDs}

\* ((cob_id & 0x7F) as u8).try_into(): the Result that raw_id_to_node_id
\* unwraps
raw_id_to_node_id(cob_id) == NodeID_new(BitAnd(cob_id, 127))

InvalidCobId(id) == Err([kind |-> "InvalidCobId", value |-> id])

\* Ok(CommunicationObject::<cat>(Self::raw_id_to_node_id(id))): the unwrap
\* in raw_id_to_node_id panics on an Err.
OfBand(cat, id) ==
    LET r == raw_id_to_node_id(id)
    IN  IF r.tag = "Ok" THEN Ok(WithNode(cat, r.data)) ELSE Panic

\* The inner match of CommunicationObject::new, on id & 0b00000111_10000000
Classify(id) ==
    LET band == BitAnd(id, 1920) IN
    CASE band = 0 ->
            (CASE id = 0 -> Ok(Nodeless("NMTNodeControl"))
               [] id = 1 -> Ok(Nodeless("GlobalFailsafeCommand"))
               [] OTHER -> InvalidCobId(id))
      [] band = 128 ->
            IF BitAnd(id, 127) = 0 THEN Ok(Nodeless("Sync"))
            ELSE OfBand("Emergency", id)
      [] band = 256 -> Ok(Nodeless("TimeStamp"))
      [] band = 384 -> OfBand("TxPDO1", id)
      [] band = 512 -> OfBand("RxPDO1", id)
      [] band = 640 -> OfBand("TxPDO2", id)
      [] band = 768 -> OfBand("RxPDO2", id)
      [] band = 896 -> OfBand("TxPDO3", id)
      [] band = 1024 -> OfBand("RxPDO3", id)
      [] band = 1152 -> OfBand("TxPDO4", id)
      [] band = 1280 -> OfBand("RxPDO4", id)
      [] band = 1408 -> OfBand("TxSDO", id)
      [] band = 1536 -> OfBand("RxSDO", id)
      [] band = 1792 -> OfBand("NMTNodeMonitoring", id)
      [] band = 1920 ->
            (CASE id = 2020 -> Ok(Nodeless("TxLSS"))
               [] id = 2021 -> Ok(Nodeless("RxLSS"))
               [] OTHER -> InvalidCobId(id))
      [] OTHER -> InvalidCobId(id)

\* Mutation of CommunicationObject_new: the bits above bit 10 are masked
\* off instead of being rejected.
CommunicationObject_new_masking(id) == Classify(id % 2048)

\* CommunicationObject::new(id): match id & !0x07FF { 0 => .., _ => Err }
CommunicationObject_new(id) ==
    IF BitAnd(id, 63488) = 0 THEN Classify(id) ELSE InvalidCobId(id)

\* Mutation of as_cob_id: the node id is added to the LSS identifiers' band.
as_cob_id_from_lss_band(c) ==
    IF c.cat \in NodelessCategories THEN 0 ELSE 2020 + as_raw(c.node_id)

\* CommunicationObject::as_cob_id
as_cob_id(c) ==
    CASE c.cat = "NMTNodeControl" -> 0
      [] c.cat = "GlobalFailsafeCommand" -> 1
      [] c.cat = "Sync" -> 128
      [] c.cat = "Emergency" -> 128 + as_raw(c.node_id)
      [] c.cat = "TimeStamp" -> 256
      [] c.cat = "TxPDO1" -> 384 + as_raw(c.node_id)
      [] c.cat = "RxPDO1" -> 512 + as_raw(c.node_id)
      [] c.cat = "TxPDO2" -> 640 + as_raw(c.node_id)
      [] c.cat = "RxPDO2" -> 768 + as_raw(c.node_id)
      [] c.cat = "TxPDO3" -> 896 + as_raw(c.node_id)
      [] c.cat = "RxPDO3" -> 1024 + as_raw(c.node_id)
      [] c.cat = "TxPDO4" -> 1152 + as_raw(c.node_id)
      [] c.cat = "RxPDO4" -> 1280 + as_raw(c.node_id)
      [] c.cat = "TxSDO" -> 1408 + as_raw(c.node_id)
      [] c.cat = "RxSDO" -> 1536 + as_raw(c.node_id)
      [] c.cat = "NMTNodeMonitoring" -> 1792 + as_raw(c.node_id)
      [] c.cat = "TxLSS" -> 2020
      [] c.cat = "RxLSS" -> 2021

\* socketcan::Id::Standard(socketcan::StandardId::new(cob.as_cob_id()).unwrap())
\* StandardId::new returns None above 0x7FF.
Id_from(cob) ==
    LET raw == as_cob_id(cob)
    IN  IF raw <= 2047 THEN [kind |-> "Standard", raw |-> raw] ELSE Panic

\* ---- the identifier functions applied to every input
CobInputs ==
    {[fn |-> "new", input |-> id, stage |-> 0, mid |-> Pending,
      out |-> Pending, can_id |-> Pending] : id \in U16}
    \cup {[fn |-> "as_cob_id", input |-> c, stage |-> 0, mid |-> Pending,
           out |-> Pending, can_id |-> Pending] : c \in CommunicationObjects}
    \cup {[fn |-> "node_id", input |-> raw_id, stage |-> 0, mid |-> Pending,
           out |-> Pending, can_id |-> Pending] : raw_id \in U8}

CobInit == HandlerInit /\ codec \in CobInputs

\* CommunicationObject::new(id)
NewFromId ==
    /\ codec.fn = "new" /\ codec.stage = 0
    /\ codec' = [codec EXCEPT !.stage = 1,
                              !.mid = CommunicationObject_new(codec.input)]
    /\ UNCHANGED <<waiting_table, pc, key, chan, result, sent, next_frame,
                   nread, rx, resolvedBy, wire>>

\* ... and, where it succeeded, as_cob_id of the value it gave
IdOfNew ==
    /\ codec.fn = "new" /\ codec.stage = 1 /\ codec.mid.tag = "Ok"
    /\ codec' = [codec EXCEPT !.stage = 2,
                              !.out = as_cob_id(codec.mid.data),
                              !.can_id = Id_from(codec.mid.data)]
    /\ UNCHANGED <<waiting_table, pc, key, chan, result, sent, next_frame,
                   nread, rx, resolvedBy, wire>>

\* c.as_cob_id(), and c.into() for socketcan::Id
IdOfValue ==
    /\ codec.fn = "as_cob_id" /\ codec.stage = 0
    /\ codec' = [codec EXCEPT !.stage = 1,
                              !.mid = as_cob_id(codec.input),
                              !.can_id = Id_from(codec.input)]
    /\ UNCHANGED <<waiting_table, pc, key, chan, result, sent, next_frame,
                   nread, rx, resolvedBy, wire>>

\* ... and CommunicationObject::new of that identifier
NewOfId ==
    /\ codec.fn = "as_cob_id" /\ codec.stage = 1
    /\ codec' = [codec EXCEPT !.stage = 2,
                              !.out = CommunicationObject_new(codec.mid)]
    /\ UNCHANGED <<waiting_table, pc, key, chan, result, sent, next_frame,
                   nread, rx, resolvedBy, wire>>

\* NodeID::new(raw_id)
NodeIdOfRaw ==
    /\ codec.fn = "node_id" /\ codec.stage = 0
    /\ codec' = [codec EXCEPT !.stage = 1, !.mid = NodeID_new(codec.input)]
    /\ UNCHANGED <<waiting_table, pc, key, chan, result, sent, next_frame,
                   nread, rx, resolvedBy, wire>>

\* ... and, where it succeeded, as_raw of the NodeID it gave
RawOfNodeId ==
    /\ codec.fn = "node_id" /\ codec.stage = 1 /\ codec.mid.tag = "Ok"
    /\ codec' = [codec EXCEPT !.stage = 2, !.out = as_raw(codec.mid.data)]
    /\ UNCHANGED <<waiting_table, pc, key, chan, result, sent, next_frame,
                   nread, rx, resolvedBy, wire>>

CobNext ==
    NewFromId \/ IdOfNew \/ IdOfValue \/ NewOfId \/ NodeIdOfRaw
        \/ RawOfNodeId

CobSpec == CobInit /\ [][CobNext]_vars

\* ---- C16 ----
\* For every CommunicationObject value c, with every NodeID that NodeID::new
\* accepts, CommunicationObject::new(c.as_cob_id()) is Ok(c).
C16_ValueToIdToValue ==
    (codec.fn = "as_cob_id" /\ codec.stage = 2) => codec.out = Ok(codec.input)

\* ---- C17 ----
\* For every 16-bit id that CommunicationObject::new accepts, as_cob_id of
\* the value it gives is that id.
C17_IdToValueToId ==
    (codec.fn = "new" /\ codec.stage = 2) => codec.out = codec.input

\* ---- C18 ----
\* CommunicationObject::new never panics, and it returns InvalidCobId(id),
\* with the id it was given, for every id with a bit above bit 10 set, every
\* id in 0x002..0x07F, every id in 0x680..0x6FF and every id in 0x780..0x7FF
\* other than 0x7E4 and 0x7E5.
Unassigned(id) ==
    \/ id > 2047
    \/ id \in 2..127
    \/ id \in 1664..1791
    \/ (id \in 1920..2047 /\ id \notin {2020, 2021})

C18_UnassignedIdsRejected ==
    (codec.fn = "new" /\ codec.stage >= 1) =>
        /\ codec.mid # Panic
        /\ Unassigned(codec.input) =>
              codec.mid = Err([kind |-> "InvalidCobId", value |-> codec.input])

C18_Witness ==
    /\ codec.fn = "new" /\ codec.stage = 1
    /\ codec.input = 34305
    /\ codec.mid = Err([kind |-> "InvalidCobId", value |-> 34305])

\* ---- C19 ----
\* as_cob_id is the fixed base of the category plus the node id (nothing is
\* added for a category without a node); RxSDO(11) gives 0x60B, TxPDO2(4)
\* gives 0x284 and TxLSS 0x7E4; the identifier never exceeds 0x7FF, so the
\* conversion to a standard CAN identifier succeeds.
FixedBase(cat) ==
    CASE cat = "NMTNodeControl" -> 0
      [] cat = "GlobalFailsafeCommand" -> 1
      [] cat \in {"Sync", "Emergency"} -> 128
      [] cat = "TimeStamp" -> 256
      [] cat = "TxPDO1" -> 384
      [] cat = "RxPDO1" -> 512
      [] cat = "TxPDO2" -> 640
      [] cat = "RxPDO2" -> 768
      [] cat = "TxPDO3" -> 896
      [] cat = "RxPDO3" -> 1024
      [] cat = "TxPDO4" -> 1152
      [] cat = "RxPDO4" -> 1280
      [] cat = "TxSDO" -> 1408
      [] cat = "RxSDO" -> 1536
      [] cat = "NMTNodeMonitoring" -> 1792
      [] cat = "TxLSS" -> 2020
      [] cat = "RxLSS" -> 2021

C19_BasePlusNode ==
    (codec.fn = "as_cob_id" /\ codec.stage >= 1) =>
        /\ codec.mid = FixedBase(codec.input.cat) +
                (IF codec.input.cat \in NodeCategories
                 THEN codec.input.node_id ELSE 0)
        /\ codec.mid <= 2047
        /\ codec.can_id = [kind |-> "Standard", raw |-> codec.mid]
        /\ codec.input = WithNode("RxSDO", 11) => codec.mid = 1547
        /\ codec.input = WithNode("TxPDO2", 4) => codec.mid = 644
        /\ codec.input = Nodeless("TxLSS") => codec.mid = 2020

C19_Witness ==
    /\ codec.fn = "as_cob_id" /\ codec.stage = 1
    /\ codec.input = WithNode("NMTNodeMonitoring", 127)
    /\ codec.mid = 1919
    /\ codec.can_id = [kind |-> "Standard", raw |-> 1919]

\* ------------------------------------------------- the simple frame codecs
InvalidDataLength(bytes, data_type) ==
    Err([kind |-> "InvalidDataLength", length |-> Len(bytes),
         data_type |-> data_type])

\* u16::to_le_bytes, u16::from_le_bytes
u16_to_le_bytes(v) == <<v % 256, (v \div 256) % 256>>
u16_from_le_bytes(b) == b[1] + 256 * b[2]

\* A u32 is held as its two 16-bit halves, low half first, and a usize (of
\* 64 bits) as its four 16-bit quarters, lowest first.
U32(lo, hi) == <<lo, hi>>
u32_to_le_bytes(v) == u16_to_le_bytes(v[1]) \o u16_to_le_bytes(v[2])
u32_from_le_bytes(b) ==
    U32(u16_from_le_bytes(SubSeq(b, 1, 2)), u16_from_le_bytes(SubSeq(b, 3, 4)))
\* `v as usize` of a u32 and `size as u32` of a usize
u32_as_usize(v) == v \o <<0, 0>>
usize_as_u32(size) == SubSeq(size, 1, 2)

\* NMTCommand::as_byte: the discriminant of the variant
NMTCommand_as_byte(command) ==
    CASE command = "Operational" -> 1
      [] command = "Stopped" -> 2
      [] command = "PreOperational" -> 128
      [] command = "ResetNode" -> 129
      [] command = "ResetCommunication" -> 130

NMTCommand_from_byte(byte) ==
    CASE byte = 1 -> Ok("Operational")
      [] byte = 2 -> Ok("Stopped")
      [] byte = 128 -> Ok("PreOperational")
      [] byte = 129 -> Ok("ResetNode")
      [] byte = 130 -> Ok("ResetCommunication")
      [] OTHER -> Err([kind |-> "InvalidNMTCommand", value |-> byte])

NMTNodeControlAddress_as_byte(address) ==
    IF address = AllNodes THEN 0 ELSE as_raw(address.node_id)

\* 0x00 => Ok(Self::AllNodes), _ => Ok(Self::Node(value.try_into()?))
NMTNodeControlAddress_from_byte(value) ==
    IF value = 0 THEN Ok(AllNodes)
    ELSE LET r == NodeID_new(value)
         IN  IF r.tag = "Ok" THEN Ok(Node(r.data)) ELSE r

\* Mutation of NMTNodeControlFrame_from_bytes: the address is parsed first.
NMTNodeControlFrame_from_bytes_address_first(bytes) ==
    IF Len(bytes) # 2 THEN InvalidDataLength(bytes, "NMTNodeControlFrame")
    ELSE LET command == NMTCommand_from_byte(bytes[1])
             address == NMTNodeControlAddress_from_byte(bytes[2])
         IN  IF address.tag # "Ok" THEN address
             ELSE IF command.tag # "Ok" THEN command
             ELSE Ok(NmtNodeControlFrame_new(command.data, address.data))

\* NMTNodeControlFrame::from_bytes: the command is parsed first
NMTNodeControlFrame_from_bytes(bytes) ==
    IF Len(bytes) # 2 THEN InvalidDataLength(bytes, "NMTNodeControlFrame")
    ELSE LET command == NMTCommand_from_byte(bytes[1])
             address == NMTNodeControlAddress_from_byte(bytes[2])
         IN  IF command.tag # "Ok" THEN command
             ELSE IF address.tag # "Ok" THEN address
             ELSE Ok(NmtNodeControlFrame_new(command.data, address.data))

\* set_data of NMTNodeControlFrame: the bytes of the buffer it fills
NMTNodeControlFrame_set_data(frame) ==
    <<NMTCommand_as_byte(frame.command),
      NMTNodeControlAddress_as_byte(frame.address)>>

\* enum NmtState
NmtState == {"BootUp", "Stopped", "Operational", "PreOperational"}

NmtState_as_byte(state) ==
    CASE state = "BootUp" -> 0
      [] state = "Stopped" -> 4
      [] state = "Operational" -> 5
      [] state = "PreOperational" -> 127

NmtState_from_byte(byte) ==
    CASE byte = 0 -> Ok("BootUp")
      [] byte = 4 -> Ok("Stopped")
      [] byte = 5 -> Ok("Operational")
      [] byte = 127 -> Ok("PreOperational")
      [] OTHER -> Err([kind |-> "InvalidNmtState", value |-> byte])

NmtNodeMonitoringFrame_new(node_id, state) ==
    [type |-> "NmtNodeMonitoringFrame", node_id |-> node_id, state |-> state]

NmtNodeMonitoringFrame_from_node_id_bytes(node_id, bytes) ==
    IF Len(bytes) # 1 THEN InvalidDataLength(bytes, "NmtNodeMonitoringFrame")
    ELSE LET state == NmtState_from_byte(bytes[1])
         IN  IF state.tag # "Ok" THEN state
             ELSE Ok(NmtNodeMonitoringFrame_new(node_id, state.data))

NmtNodeMonitoringFrame_set_data(frame) == <<NmtState_as_byte(frame.state)>>

EmergencyFrame_new(node_id, error_code, error_register) ==
    [type |-> "EmergencyFrame", node_id |-> node_id,
     error_code |-> error_code, error_register |-> error_register]

\* Mutation of EmergencyFrame_from_node_id_bytes: the error code is read
\* high byte first.
EmergencyFrame_from_node_id_bytes_be(node_id, bytes) ==
    IF Len(bytes) # 8 THEN InvalidDataLength(bytes, "EmergencyFrame")
    ELSE Ok(EmergencyFrame_new(node_id, 256 * bytes[1] + bytes[2], bytes[3]))

\* The bytes after the error register are not read.
EmergencyFrame_from_node_id_bytes(node_id, bytes) ==
    IF Len(bytes) # 8 THEN InvalidDataLength(bytes, "EmergencyFrame")
    ELSE Ok(EmergencyFrame_new(node_id,
                               u16_from_le_bytes(SubSeq(bytes, 1, 2)),
                               bytes[3]))

\* data[0..2] = error_code LE; data[2] = error_register; data[3..].fill(0)
EmergencyFrame_set_data(frame) ==
    u16_to_le_bytes(frame.error_code) \o <<frame.error_register>>
        \o <<0, 0, 0, 0, 0>>

SyncFrame_new == [type |-> "SyncFrame"]

SyncFrame_set_data(frame) == <<>>

\* ------------------------------------------------------ frame/sdo.rs
\* `a | b` on unsigned integers
RECURSIVE BitOr(_, _)
BitOr(a, b) ==
    IF a = 0 THEN b
    ELSE IF b = 0 THEN a
    ELSE (IF a % 2 = 1 \/ b % 2 = 1 THEN 1 ELSE 0)
            + 2 * BitOr(a \div 2, b \div 2)

NotImplemented == Err("NotImplemented")
InvalidCommandSpecifier(value) ==
    Err([kind |-> "InvalidCommandSpecifier", value |-> value])

AbortTransferSpecifier == [kind |-> "AbortTransfer"]
Client(ccs) == [kind |-> "Client", cs |-> ccs]
Server(scs) == [kind |-> "Server", cs |-> scs]

ClientCommandSpecifier_new(value) ==
    CASE value = 0 -> Ok("DownloadSegmentRequest")
      [] value = 1 -> Ok("InitiateDownloadRequest")
      [] value = 2 -> Ok("InitiateUploadRequest")
      [] value = 3 -> Ok("UploadSegmentRequest")
      [] value = 5 -> Ok("BlockUpload")
      [] value = 6 -> Ok("BlockDownload")
      [] OTHER -> InvalidCommandSpecifier(value)

ServerCommandSpecifier_new(value) ==
    CASE value = 0 -> Ok("UploadSegmentResponse")
      [] value = 1 -> Ok("DownloadSegmentResponse")
      [] value = 2 -> Ok("InitiateUploadResponse")
      [] value = 3 -> Ok("InitiateDownloadResponse")
      [] value = 5 -> Ok("BlockDownload")
      [] value = 6 -> Ok("BlockUpload")
      [] OTHER -> InvalidCommandSpecifier(value)

\* CommandSpecifier::new(direction, value)
CommandSpecifier_new(direction, value) ==
    IF value = 4 THEN Ok(AbortTransferSpecifier)
    ELSE IF direction = "Tx"
    THEN LET scs == ServerCommandSpecifier_new(value)
         IN  IF scs.tag = "Ok" THEN Ok(Server(scs.data)) ELSE scs
    ELSE LET ccs == ClientCommandSpecifier_new(value)
         IN  IF ccs.tag = "Ok" THEN Ok(Client(ccs.data)) ELSE ccs

\* Mutation of CommandSpecifier_new_with_byte: the specifier is read from
\* the low three bits.
CommandSpecifier_new_with_low_bits(direction, byte) ==
    CommandSpecifier_new(direction, BitAnd(byte, 7))

\* Self::new(direction, (byte & Self::BIT_MASK) >> Self::BIT_OFFSET)
CommandSpecifier_new_with_byte(direction, byte) ==
    CommandSpecifier_new(direction, BitAnd(byte, 224) \div 32)

\* The discriminants of ClientCommandSpecifier and ServerCommandSpecifier
CommandSpecifier_as_num(cs) ==
    CASE cs.kind = "AbortTransfer" -> 4
      [] cs.kind = "Client" ->
            (CASE cs.cs = "DownloadSegmentRequest" -> 0
               [] cs.cs = "InitiateDownloadRequest" -> 1
               [] cs.cs = "InitiateUploadRequest" -> 2
               [] cs.cs = "UploadSegmentRequest" -> 3
               [] cs.cs = "BlockUpload" -> 5
               [] cs.cs = "BlockDownload" -> 6)
      [] cs.kind = "Server" ->
            (CASE cs.cs = "UploadSegmentResponse" -> 0
               [] cs.cs = "DownloadSegmentResponse" -> 1
               [] cs.cs = "InitiateUploadResponse" -> 2
               [] cs.cs = "InitiateDownloadResponse" -> 3
               [] cs.cs = "BlockDownload" -> 5
               [] cs.cs = "BlockUpload" -> 6)

\* (self.as_num() << Self::BIT_OFFSET) & Self::BIT_MASK
CommandSpecifier_as_byte_fragment(cs) ==
    BitAnd((CommandSpecifier_as_num(cs) * 32) % 256, 224)

\* enum SdoTransferType
Normal(size) == [variant |-> "Normal", size |-> size]
Expedited(sized, data) ==
    [variant |-> "Expedited", sized |-> sized, data |-> data]

\* Mutation of SdoTransferType_new_with_bytes: the void-byte count is not
\* read, the data always runs to the end of the payload.
SdoTransferType_new_with_bytes_ignoring_void_bytes(bytes) ==
    IF BitAnd(bytes[1], 2) = 0
    THEN IF BitAnd(bytes[1], 1) = 0 THEN NotImplemented
         ELSE IF Len(bytes) < 8 THEN InvalidDataLength(bytes, "SdoFrame")
         ELSE Ok(Normal(u32_as_usize(u32_from_le_bytes(SubSeq(bytes, 5, 8)))))
    ELSE IF Len(bytes) < 8 THEN InvalidDataLength(bytes, "SdoFrame")
         ELSE Ok(Expedited(BitAnd(bytes[1], 1) # 0, SubSeq(bytes, 5, 8)))

\* SdoTransferType::new_with_bytes (bytes[0] of the source is bytes[1] here)
SdoTransferType_new_with_bytes(bytes) ==
    IF BitAnd(bytes[1], 2) = 0
    THEN IF BitAnd(bytes[1], 1) = 0 THEN NotImplemented
         ELSE IF Len(bytes) < 8 THEN InvalidDataLength(bytes, "SdoFrame")
         ELSE Ok(Normal(u32_as_usize(u32_from_le_bytes(SubSeq(bytes, 5, 8)))))
    ELSE LET sized == BitAnd(bytes[1], 1) # 0
             data_end_pos ==
                IF sized THEN 8 - (BitAnd(bytes[1], 12) \div 4) ELSE 8
         IN  IF Len(bytes) < data_end_pos
             THEN InvalidDataLength(bytes, "SdoFrame")
             ELSE Ok(Expedited(sized, SubSeq(bytes, 5, data_end_pos)))

\* SdoTransferType::as_first_byte_fragment, for data of at most 4 bytes
SdoTransferType_as_first_byte_fragment(transfer_type) ==
    IF transfer_type.variant = "Normal" THEN 1
    ELSE BitOr(BitOr(IF transfer_type.sized
                     THEN BitAnd(((4 - Len(transfer_type.data)) * 4) % 256, 12)
                     ELSE 0,
                     2),
               IF transfer_type.sized THEN 1 ELSE 0)

\* buf.resize(n, 0x00)
Resize(buf, n) == [i \in 1..n |-> IF i <= Len(buf) THEN buf[i] ELSE 0]

\* SdoTransferType::as_data_bytes: `*size as u32` keeps the low 32 bits
SdoTransferType_as_data_bytes(transfer_type) ==
    IF transfer_type.variant = "Normal"
    THEN u32_to_le_bytes(usize_as_u32(transfer_type.size))
    ELSE Resize(transfer_type.data, 4)

\* SdoSegmentData::as_first_byte_fragment, for data of at most 7 bytes
SdoSegmentData_as_first_byte_fragment(data) ==
    BitAnd(((7 - Len(data)) * 2) % 256, 14)

\* SdoSegmentToggle::as_first_byte_fragment
SdoSegmentToggle_as_first_byte_fragment(toggle) == IF toggle THEN 16 ELSE 0

\* The variants of SdoCommand that carry index and sub_index only, those
\* that carry a transfer type too, and the segment commands
WithAddress(variant, index, sub_index) ==
    [variant |-> variant, index |-> index, sub_index |-> sub_index]
WithTransferType(variant, index, sub_index, transfer_type) ==
    [variant |-> variant, index |-> index, sub_index |-> sub_index,
     transfer_type |-> transfer_type]
AbortTransferCommand(index, sub_index, abort_code) ==
    [variant |-> "AbortTransfer", index |-> index, sub_index |-> sub_index,
     abort_code |-> abort_code]
SegmentWithData(variant, toggle, data, continued) ==
    [variant |-> variant, toggle |-> toggle, data |-> data,
     continued |-> continued]
SegmentAck(variant, toggle) == [variant |-> variant, toggle |-> toggle]

\* The first byte and what follows it, before buf.resize
SdoCommand_unpadded(command) ==
    LET v == command.variant IN
    CASE v = "AbortTransfer" ->
            <<CommandSpecifier_as_byte_fragment(AbortTransferSpecifier)>>
                \o u16_to_le_bytes(command.index) \o <<command.sub_index>>
                \o u32_to_le_bytes(command.abort_code)
      [] v = "InitiateDownloadRequest" ->
            <<BitOr(CommandSpecifier_as_byte_fragment(Client(v)),
                    SdoTransferType_as_first_byte_fragment(command.transfer_type))>>
                \o u16_to_le_bytes(command.index) \o <<command.sub_index>>
                \o SdoTransferType_as_data_bytes(command.transfer_type)
      [] v = "InitiateDownloadResponse" ->
            <<CommandSpecifier_as_byte_fragment(Server(v))>>
                \o u16_to_le_bytes(command.index) \o <<command.sub_index>>
      [] v = "DownloadSegmentRequest" ->
            <<BitOr(BitOr(BitOr(CommandSpecifier_as_byte_fragment(Client(v)),
                                SdoSegmentToggle_as_first_byte_fragment(command.toggle)),
                          SdoSegmentData_as_first_byte_fragment(command.data)),
                    IF command.continued THEN 1 ELSE 0)>>
                \o command.data
      [] v = "DownloadSegmentResponse" ->
            <<BitOr(CommandSpecifier_as_byte_fragment(Server(v)),
                    SdoSegmentToggle_as_first_byte_fragment(command.toggle))>>
      [] v = "InitiateUploadRequest" ->
            <<CommandSpecifier_as_byte_fragment(Client(v))>>
                \o u16_to_le_bytes(command.index) \o <<command.sub_index>>
      [] v = "InitiateUploadResponse" ->
            <<BitOr(CommandSpecifier_as_byte_fragment(Server(v)),
                    SdoTransferType_as_first_byte_fragment(command.transfer_type))>>
                \o u16_to_le_bytes(command.index) \o <<command.sub_index>>
                \o SdoTransferType_as_data_bytes(command.transfer_type)
      [] v = "UploadSegmentRequest" ->
            <<BitOr(CommandSpecifier_as_byte_fragment(Client(v)),
                    SdoSegmentToggle_as_first_byte_fragment(command.toggle))>>
      [] v = "UploadSegmentResponse" ->
            <<BitOr(BitOr(BitOr(CommandSpecifier_as_byte_fragment(Server(v)),
                                SdoSegmentToggle_as_first_byte_fragment(command.toggle)),
                          SdoSegmentData_as_first_byte_fragment(command.data)),
                    IF command.continued THEN 1 ELSE 0)>>
                \o command.data

\* Mutation of SdoCommand_as_bytes: the buffer is not padded to 8 bytes.
SdoCommand_as_bytes_unpadded(command) == SdoCommand_unpadded(command)

\* SdoCommand::as_bytes, for values it does not panic on
SdoCommand_as_bytes(command) == Resize(SdoCommand_unpadded(command), 8)

\* Expedited data longer than MAX_DATA_BYTES: as_first_byte_fragment
\* overflows its subtraction (a panic where overflow is checked) and
\* as_data_bytes slices its 4-byte buffer out of range (a panic always).
Overlong(command) ==
    /\ command.variant \in {"InitiateDownloadRequest", "InitiateUploadResponse"}
    /\ command.transfer_type.variant = "Expedited"
    /\ Len(command.transfer_type.data) > 4

\* struct SdoFrame { direction, node_id, command }
SdoFrame_new(direction, node_id, command) ==
    [type |-> "SdoFrame", direction |-> direction, node_id |-> node_id,
     command |-> command]

\* SdoFrame::new_with_bytes(direction, node_id, bytes)
SdoFrame_new_with_bytes(direction, node_id, bytes) ==
    IF Len(bytes) < 8 THEN InvalidDataLength(bytes, "SdoFrame")
    ELSE
    LET command_specifier == CommandSpecifier_new_with_byte(direction, bytes[1])
        index == u16_from_le_bytes(SubSeq(bytes, 2, 3))
        sub_index == bytes[4]
        transfer_type == SdoTransferType_new_with_bytes(bytes)
    IN
    IF command_specifier.tag # "Ok" THEN command_specifier
    ELSE LET cs == command_specifier.data IN
    CASE cs = AbortTransferSpecifier ->
            Ok(SdoFrame_new(direction, node_id,
                   AbortTransferCommand(index, sub_index,
                       u32_from_le_bytes(SubSeq(bytes, 5, 8)))))
      [] cs = Server("InitiateDownloadResponse") ->
            Ok(SdoFrame_new(direction, node_id,
                   WithAddress("InitiateDownloadResponse", index, sub_index)))
      [] cs = Client("InitiateUploadRequest") ->
            Ok(SdoFrame_new(direction, node_id,
                   WithAddress("InitiateUploadRequest", index, sub_index)))
      [] cs \in {Client("InitiateDownloadRequest"),
                 Server("InitiateUploadResponse")} ->
            IF transfer_type.tag # "Ok" THEN transfer_type
            ELSE Ok(SdoFrame_new(direction, node_id,
                        WithTransferType(cs.cs, index, sub_index,
                                         transfer_type.data)))
      [] OTHER -> NotImplemented

\* ---- the frame codecs applied to values and to payloads
\* What an encoder returns
Bytes(b) == [tag |-> "Bytes", data |-> b]

\* From<CanOpenFrame> for socketcan::CanFrame: the payload of each variant
frame_data(frame) ==
    CASE frame.type = "NmtNodeControlFrame" ->
            Bytes(NMTNodeControlFrame_set_data(frame))
      [] frame.type = "SyncFrame" -> Bytes(SyncFrame_set_data(frame))
      [] frame.type = "EmergencyFrame" -> Bytes(EmergencyFrame_set_data(frame))
      [] frame.type = "SdoFrame" ->
            IF Overlong(frame.command) THEN Panic
            ELSE Bytes(SdoCommand_as_bytes(frame.command))
      [] frame.type = "NmtNodeMonitoringFrame" ->
            Bytes(NmtNodeMonitoringFrame_set_data(frame))

\* TryFrom<socketcan::CanFrame> for CanOpenFrame, after the identifier has
\* given the variant, the direction and the node id
from_payload(type, direction, node_id, bytes) ==
    CASE type = "NmtNodeControlFrame" -> NMTNodeControlFrame_from_bytes(bytes)
      [] type = "SyncFrame" -> Ok(SyncFrame_new)
      [] type = "EmergencyFrame" ->
            EmergencyFrame_from_node_id_bytes(node_id, bytes)
      [] type = "SdoFrame" -> SdoFrame_new_with_bytes(direction, node_id, bytes)
      [] type = "NmtNodeMonitoringFrame" ->
            NmtNodeMonitoringFrame_from_node_id_bytes(node_id, bytes)

\* The direction and node id of a frame, where it has them
DirectionOf(frame) == IF frame.type = "SdoFrame" THEN frame.direction ELSE "Rx"
NodeOf(frame) ==
    IF frame.type \in {"NmtNodeControlFrame", "SyncFrame"} THEN 0
    ELSE frame.node_id

MaxExpedited == 4  \* SdoTransferType::MAX_DATA_BYTES
MaxSegment == 7    \* SdoSegmentData::MAX_DATA_BYTES

\* Sequences of at most n elements of S
SeqsUpTo(S, n) == UNION {[1..k -> S] : k \in 0..n}

NodeSample == {1, 127}
IndexSample == {0, 4120, 65535}
SubIndexSample == {0, 255}
TransferTypes ==
    {Normal(size) :
        size \in {<<0, 0, 0, 0>>, <<4, 0, 0, 0>>, <<22136, 4660, 0, 0>>,
                  <<65535, 65535, 0, 0>>, <<5, 0, 1, 0>>}}
    \cup {Expedited(sized, data) :
            sized \in BOOLEAN, data \in SeqsUpTo({0, 171}, MaxExpedited)}
SegmentData == {[i \in 1..k |-> 17 * i] : k \in 0..MaxSegment}

\* The SdoCommand values of the sample, all nine variants
SdoCommands ==
    {WithAddress(v, i, s) :
        v \in {"InitiateDownloadResponse", "InitiateUploadRequest"},
        i \in IndexSample, s \in SubIndexSample}
    \cup {WithTransferType(v, i, s, t) :
            v \in {"InitiateDownloadRequest", "InitiateUploadResponse"},
            i \in IndexSample, s \in SubIndexSample, t \in TransferTypes}
    \cup {AbortTransferCommand(i, s, a) :
            i \in IndexSample, s \in SubIndexSample,
            a \in {U32(0, 0), U32(2, 1537), U32(65535, 65535)}}
    \cup {SegmentWithData(v, t, d, c) :
            v \in {"DownloadSegmentRequest", "UploadSegmentResponse"},
            t \in BOOLEAN, d \in SegmentData, c \in BOOLEAN}
    \cup {SegmentAck(v, t) :
            v \in {"DownloadSegmentResponse", "UploadSegmentRequest"},
            t \in BOOLEAN}

\* The frame values of the sample
FrameValues ==
    {NmtNodeControlFrame_new(command, address) :
        command \in NmtCommand,
        address \in {AllNodes} \cup {Node(n) : n \in NodeIDs}}
    \cup {NmtNodeMonitoringFrame_new(n, state) :
            n \in NodeSample, state \in NmtState}
    \cup {EmergencyFrame_new(n, error_code, error_register) :
            n \in NodeSample, error_code \in {0, 33072, 65535},
            error_register \in {0, 17, 255}}
    \cup {SyncFrame_new}
    \cup {SdoFrame_new(direction, n, command) :
            direction \in {"Tx", "Rx"}, n \in NodeSample,
            command \in SdoCommands}

\* A payload as it is handed to a decoder: the variant, direction and node
\* id that the identifier gave, and the data bytes
Payload(type, direction, node_id, bytes) ==
    [type |-> type, direction |-> direction, node_id |-> node_id,
     bytes |-> bytes]

\* The payloads of the sample: 2-byte NMT control payloads (every command
\* byte, and every address byte with each command), every 1-byte heartbeat
\* payload, emergency and SDO payloads of 8 bytes
Payloads ==
    {Payload("NmtNodeControlFrame", "Rx", 0, <<a, b>>) :
        a \in U8, b \in {0, 1, 127, 128, 255}}
    \cup {Payload("NmtNodeControlFrame", "Rx", 0, <<a, b>>) :
            a \in {0, 1, 2, 128, 129, 130}, b \in U8}
    \cup {Payload("NmtNodeMonitoringFrame", "Rx", n, <<a>>) :
            n \in NodeSample, a \in U8}
    \cup {Payload("EmergencyFrame", "Rx", 1, <<a, b, c>> \o reserved) :
            a \in {0, 48}, b \in {0, 129}, c \in {0, 17},
            reserved \in [1..5 -> {0, 1}]}
    \cup {Payload("SdoFrame", direction, 1, <<a, 24, 16, 2>> \o data) :
            direction \in {"Tx", "Rx"}, a \in U8,
            data \in [1..4 -> {0, 90}]}

\* 8-byte payloads of initiate frames: every first byte, a fixed index and
\* sub-index, and data bytes
InitiatePayloads ==
    {<<a, 24, 16, 2>> \o data : a \in U8, data \in [1..4 -> {0, 90}]}

Started(fn, input) ==
    [fn |-> fn, input |-> input, stage |-> 0, mid |-> Pending,
     out |-> Pending]

FrameInit ==
    /\ HandlerInit
    /\ codec \in {Started("encode_decode", v) : v \in FrameValues}
            \cup {Started("decode_encode", p) : p \in Payloads}
            \cup {Started("new_with_byte", [direction |-> d, byte |-> b]) :
                    d \in {"Tx", "Rx"}, b \in U8}
            \cup {Started("transfer_type", bytes) : bytes \in InitiatePayloads}

\* frame.into(): the value is encoded
EncodeValue ==
    /\ codec.fn = "encode_decode" /\ codec.stage = 0
    /\ codec' = [codec EXCEPT !.stage = 1, !.mid = frame_data(codec.input)]
    /\ UNCHANGED <<waiting_table, pc, key, chan, result, sent, next_frame,
                   nread, rx, resolvedBy, wire>>

\* ... and the bytes it gave are decoded, with the same direction and node id
DecodeEncoded ==
    /\ codec.fn = "encode_decode" /\ codec.stage = 1
    /\ codec.mid.tag = "Bytes"
    /\ codec' = [codec EXCEPT !.stage = 2,
                    !.out = from_payload(codec.input.type,
                                         DirectionOf(codec.input),
                                         NodeOf(codec.input),
                                         codec.mid.data)]
    /\ UNCHANGED <<waiting_table, pc, key, chan, result, sent, next_frame,
                   nread, rx, resolvedBy, wire>>

\* frame.try_into(): the payload is decoded
DecodeBytes ==
    /\ codec.fn = "decode_encode" /\ codec.stage = 0
    /\ codec' = [codec EXCEPT !.stage = 1,
                    !.mid = from_payload(codec.input.type,
                                         codec.input.direction,
                                         codec.input.node_id,
                                         codec.input.bytes)]
    /\ UNCHANGED <<waiting_table, pc, key, chan, result, sent, next_frame,
                   nread, rx, resolvedBy, wire>>

\* ... and, where that succeeded, the value it gave is encoded
EncodeDecoded ==
    /\ codec.fn = "decode_encode" /\ codec.stage = 1 /\ codec.mid.tag = "Ok"
    /\ codec' = [codec EXCEPT !.stage = 2, !.out = frame_data(codec.mid.data)]
    /\ UNCHANGED <<waiting_table, pc, key, chan, result, sent, next_frame,
                   nread, rx, resolvedBy, wire>>

\* CommandSpecifier::new_with_byte(direction, byte)
SpecifierOfByte ==
    /\ codec.fn = "new_with_byte" /\ codec.stage = 0
    /\ codec' = [codec EXCEPT !.stage = 1,
                    !.mid = CommandSpecifier_new_with_byte(
                                codec.input.direction, codec.input.byte)]
    /\ UNCHANGED <<waiting_table, pc, key, chan, result, sent, next_frame,
                   nread, rx, resolvedBy, wire>>

\* SdoTransferType::new_with_bytes(bytes)
TransferTypeOfBytes ==
    /\ codec.fn = "transfer_type" /\ codec.stage = 0
    /\ codec' = [codec EXCEPT !.stage = 1,
                    !.mid = SdoTransferType_new_with_bytes(codec.input)]
    /\ UNCHANGED <<waiting_table, pc, key, chan, result, sent, next_frame,
                   nread, rx, resolvedBy, wire>>

FrameNext ==
    EncodeValue \/ DecodeEncoded \/ DecodeBytes \/ EncodeDecoded
        \/ SpecifierOfByte \/ TransferTypeOfBytes

FrameSpec == FrameInit /\ [][FrameNext]_vars

\* ---- C13 ----
\* As stated: every SdoFrame of the sample (both directions, all nine
\* variants, Normal and Expedited transfer types with 0..4 data bytes)
\* decodes, from the 8 bytes it encodes to, to itself.
IsSdoRoundTrip ==
    /\ codec.fn = "encode_decode" /\ codec.stage = 2
    /\ codec.input.type = "SdoFrame"

C13_SdoRoundTrip == IsSdoRoundTrip => codec.out = Ok(codec.input)

\* As the code has it: the round trip gives back the original exactly for
\* AbortTransfer in either direction, for InitiateUploadRequest and
\* InitiateDownloadRequest in the request direction (Rx) and for
\* InitiateDownloadResponse and InitiateUploadResponse in the response
\* direction (Tx), where a transfer type is Normal with a size below 2^32,
\* Expedited and sized with 1..4 data bytes, or Expedited and unsized with
\* exactly 4 data bytes.  No other frame of the sample round trips; a
\* segment command sent in its own direction (a request Rx, a response Tx)
\* decodes to Err(NotImplemented).
TransferTypeSurvives(transfer_type) ==
    \/ /\ transfer_type.variant = "Normal"
       /\ transfer_type.size[3] = 0 /\ transfer_type.size[4] = 0
    \/ /\ transfer_type.variant = "Expedited"
       /\ transfer_type.sized
       /\ Len(transfer_type.data) \in 1..4
    \/ /\ transfer_type.variant = "Expedited"
       /\ ~transfer_type.sized
       /\ Len(transfer_type.data) = 4

SdoFrameSurvives(frame) ==
    LET v == frame.command.variant IN
    \/ v = "AbortTransfer"
    \/ frame.direction = "Rx" /\ v = "InitiateUploadRequest"
    \/ frame.direction = "Tx" /\ v = "InitiateDownloadResponse"
    \/ /\ \/ frame.direction = "Rx" /\ v = "InitiateDownloadRequest"
          \/ frame.direction = "Tx" /\ v = "InitiateUploadResponse"
       /\ TransferTypeSurvives(frame.command.transfer_type)

SegmentInOwnDirection(frame) ==
    \/ /\ frame.direction = "Rx"
       /\ frame.command.variant \in
             {"DownloadSegmentRequest", "UploadSegmentRequest"}
    \/ /\ frame.direction = "Tx"
       /\ frame.command.variant \in
             {"DownloadSegmentResponse", "UploadSegmentResponse"}

C13_SdoRoundTripWhereDecodable ==
    IsSdoRoundTrip =>
        /\ codec.mid.tag = "Bytes" /\ Len(codec.mid.data) = 8
        /\ codec.out = Ok(codec.input) <=> SdoFrameSurvives(codec.input)
        /\ SegmentInOwnDirection(codec.input) => codec.out = NotImplemented

C13_Witness ==
    /\ IsSdoRoundTrip
    /\ codec.input =
          SdoFrame_new("Tx", 127,
              WithTransferType("InitiateUploadResponse", 4120, 255,
                               Expedited(TRUE, <<171, 0>>)))
    /\ codec.mid = Bytes(<<75, 24, 16, 255, 171, 0, 0, 0>>)
    /\ codec.out = Ok(codec.input)

\* ---- C14 ----
\* Every NMT control frame (each command, with AllNodes or Node(n) for every
\* NodeID n that NodeID::new accepts), heartbeat frame, emergency frame and
\* the sync frame decodes, from the payload it encodes to, to itself.
C14_SimpleRoundTrip ==
    (/\ codec.fn = "encode_decode" /\ codec.stage = 2
     /\ codec.input.type # "SdoFrame") =>
        codec.out = Ok(codec.input)

\* ---- C20 ----
\* The command specifier is decided by bits 5-7 of the byte and the
\* direction alone: 4 is AbortTransfer in both directions, 7 is rejected
\* with InvalidCommandSpecifier(7) in both, the other values name the
\* client commands in the request direction (Rx) and the server commands in
\* the response direction (Tx).
RequestSpecifiers ==
    <<"DownloadSegmentRequest", "InitiateDownloadRequest",
      "InitiateUploadRequest", "UploadSegmentRequest", "AbortTransfer",
      "BlockUpload", "BlockDownload">>
ResponseSpecifiers ==
    <<"UploadSegmentResponse", "DownloadSegmentResponse",
      "InitiateUploadResponse", "InitiateDownloadResponse", "AbortTransfer",
      "BlockDownload", "BlockUpload">>

SpecifierOfBits(direction, bits) ==
    CASE bits = 4 -> Ok([kind |-> "AbortTransfer"])
      [] bits = 7 -> Err([kind |-> "InvalidCommandSpecifier", value |-> 7])
      [] direction = "Rx" ->
            Ok([kind |-> "Client", cs |-> RequestSpecifiers[bits + 1]])
      [] direction = "Tx" ->
            Ok([kind |-> "Server", cs |-> ResponseSpecifiers[bits + 1]])

C20_SpecifierFromHighBits ==
    (codec.fn = "new_with_byte" /\ codec.stage = 1) =>
        codec.mid = SpecifierOfBits(codec.input.direction,
                                    codec.input.byte \div 32)

C20_Witness ==
    /\ codec.fn = "new_with_byte" /\ codec.stage = 1
    /\ codec.input = [direction |-> "Tx", byte |-> 95]
    /\ codec.mid = Ok(Server("InitiateUploadResponse"))

\* ---- C15 ----
\* As stated: every payload of the sample that decodes re-encodes, from the
\* value it decoded to, to the same bytes.
IsWireRoundTrip == codec.fn = "decode_encode" /\ codec.stage = 2

C15_WireRoundTrip == IsWireRoundTrip => codec.out = Bytes(codec.input.bytes)

\* As the code has it: the bytes come back exactly when every bit and byte
\* that the decoder does not read is zero.  NMT control and heartbeat
\* payloads have none.  An emergency payload has its bytes 3..7.  An SDO
\* payload has the low five bits of byte 0 for AbortTransfer,
\* InitiateUploadRequest and InitiateDownloadResponse, and bytes 4..7 too
\* for the latter two; for InitiateDownloadRequest and
\* InitiateUploadResponse it has bit 4 of byte 0, bits 2-3 unless the
\* transfer is expedited and sized, and then the trailing data bytes that
\* bits 2-3 count as unused.
AllZero(bytes, from, to) == \A i \in from..to : bytes[i] = 0

SdoUnreadIsZero(direction, bytes) ==
    LET bits == bytes[1] \div 32
        sized == BitAnd(bytes[1], 3) = 3
        unused == BitAnd(bytes[1], 12) \div 4
    IN
    IF bits = 4 THEN BitAnd(bytes[1], 31) = 0
    ELSE IF (direction = "Rx" /\ bits = 2) \/ (direction = "Tx" /\ bits = 3)
    THEN BitAnd(bytes[1], 31) = 0 /\ AllZero(bytes, 5, 8)
    ELSE /\ BitAnd(bytes[1], 16) = 0
         /\ IF sized THEN AllZero(bytes, 9 - unused, 8) ELSE unused = 0

UnreadIsZero(payload) ==
    CASE payload.type = "EmergencyFrame" -> AllZero(payload.bytes, 4, 8)
      [] payload.type = "SdoFrame" ->
            SdoUnreadIsZero(payload.direction, payload.bytes)
      [] OTHER -> TRUE

C15_WireRoundTripOfReadBits ==
    IsWireRoundTrip =>
        (codec.out = Bytes(codec.input.bytes) <=> UnreadIsZero(codec.input))

C15_Witness ==
    /\ IsWireRoundTrip
    /\ codec.input = Payload("EmergencyFrame", "Rx", 1,
                             <<48, 129, 17, 0, 0, 0, 0, 0>>)
    /\ codec.mid = Ok(EmergencyFrame_new(1, 33072, 17))
    /\ codec.out = Bytes(codec.input.bytes)

\* ---- C21 ----
\* In byte 0 of an initiate frame bit 1 is the expedited flag, bit 0 the
\* size-specified flag and bits 2-3 the void-byte count.  Decoding an 8-byte
\* payload gives Expedited{sized: true} with the data bytes 4..8-void when
\* both flags are set, Expedited{sized: false} with bytes 4..8 when only the
\* expedited flag is set, Normal with the little-endian u32 of bytes 4..8 as
\* size when only the size flag is set, and an error when neither is set.
\* Encoding an initiate frame whose transfer type is Expedited{sized: true}
\* with n data bytes, 1 <= n <= 4, sets both flags and the void-byte count
\* 4 - n, and the decode of those bytes gives back exactly the n data bytes.
Bit(byte, i) == (byte \div (2 ^ i)) % 2

HasSizedExpedited(frame) ==
    /\ frame.type = "SdoFrame"
    /\ frame.command.variant \in
          {"InitiateDownloadRequest", "InitiateUploadResponse"}
    /\ frame.command.transfer_type.variant = "Expedited"
    /\ frame.command.transfer_type.sized
    /\ Len(frame.command.transfer_type.data) \in 1..4

DecodesInDirection(frame) ==
    \/ frame.direction = "Rx" /\ frame.command.variant = "InitiateDownloadRequest"
    \/ frame.direction = "Tx" /\ frame.command.variant = "InitiateUploadResponse"

C21_TransferTypeBits ==
    /\ (codec.fn = "transfer_type" /\ codec.stage = 1) =>
          LET b == codec.input
              expedited == Bit(b[1], 1) = 1
              sized == Bit(b[1], 0) = 1
              void == 2 * Bit(b[1], 3) + Bit(b[1], 2)
          IN  /\ (expedited /\ sized) =>
                    codec.mid = Ok([variant |-> "Expedited", sized |-> TRUE,
                                    data |-> SubSeq(b, 5, 8 - void)])
              /\ (expedited /\ ~sized) =>
                    codec.mid = Ok([variant |-> "Expedited", sized |-> FALSE,
                                    data |-> SubSeq(b, 5, 8)])
              /\ (~expedited /\ sized) =>
                    codec.mid = Ok([variant |-> "Normal",
                                    size |-> <<b[5] + 256 * b[6],
                                               b[7] + 256 * b[8], 0, 0>>])
              /\ (~expedited /\ ~sized) => codec.mid.tag = "Err"
    /\ (codec.fn = "encode_decode" /\ codec.stage >= 1
            /\ HasSizedExpedited(codec.input)) =>
          LET data == codec.input.command.transfer_type.data
              byte0 == codec.mid.data[1]
          IN  /\ codec.mid.tag = "Bytes"
              /\ Bit(byte0, 1) = 1 /\ Bit(byte0, 0) = 1
              /\ 2 * Bit(byte0, 3) + Bit(byte0, 2) = 4 - Len(data)
              /\ (codec.stage = 2 /\ DecodesInDirection(codec.input)) =>
                    /\ codec.out.tag = "Ok"
                    /\ codec.out.data.command.transfer_type =
                          [variant |-> "Expedited", sized |-> TRUE,
                           data |-> data]

\* 0x4B: expedited, sized, two void bytes; the data is the two bytes 4..6.
C21_Witness ==
    /\ codec.fn = "transfer_type" /\ codec.stage = 1
    /\ codec.input = <<75, 24, 16, 2, 90, 0, 90, 90>>
    /\ codec.mid = Ok(Expedited(TRUE, <<90, 0>>))

\* ------------------------------------------------- the transport boundary
\* socketcan::Id and socketcan::CanFrame
Standard(raw) == [kind |-> "Standard", raw |-> raw]
Extended(raw) == [kind |-> "Extended", raw |-> raw]
DataFrame(id, data) == [tag |-> "Data", id |-> id, data |-> data]
RemoteFrame(id, dlc) == [tag |-> "Remote", id |-> id, dlc |-> dlc]
ErrorFrame(error_bits) == [tag |-> "Error", error_bits |-> error_bits]

CanFdNotSupported == Err("CanFdNotSupported")

\* ConvertibleFrame::communication_object of each frame type
communication_object(frame) ==
    CASE frame.type = "NmtNodeControlFrame" -> Nodeless("NMTNodeControl")
      [] frame.type = "SyncFrame" -> Nodeless("Sync")
      [] frame.type = "EmergencyFrame" -> WithNode("Emergency", frame.node_id)
      [] frame.type = "SdoFrame" ->
            IF frame.direction = "Tx" THEN WithNode("TxSDO", frame.node_id)
            ELSE WithNode("RxSDO", frame.node_id)
      [] frame.type = "NmtNodeMonitoringFrame" ->
            WithNode("NMTNodeMonitoring", frame.node_id)

\* to_socketcan_frame: CanFrame::new(frame.communication_object(), data)
\* .expect(..); CanFrame::new returns None for more than CAN_MAX_DLEN bytes.
to_socketcan_frame(frame) ==
    LET data == frame_data(frame)
        id == Id_from(communication_object(frame))
    IN  IF data.tag = "Panic" \/ id = Panic THEN Panic
        ELSE IF Len(data.data) > 8 THEN Panic
        ELSE DataFrame(id, data.data)

\* Mutation of CommunicationObject_try_from: the low 11 bits of an extended
\* identifier are classified like a standard one.
CommunicationObject_try_from_extended_as_standard(id) ==
    CommunicationObject_new(id.raw % 2048)

\* TryFrom<socketcan::Id> for CommunicationObject
CommunicationObject_try_from(id) ==
    IF id.kind = "Standard" THEN CommunicationObject_new(id.raw)
    ELSE CanFdNotSupported

\* TryFrom<socketcan::CanFrame> for CanOpenFrame
CanOpenFrame_try_from(frame) ==
    IF frame.tag # "Data" THEN NotImplemented
    ELSE LET cob == CommunicationObject_try_from(frame.id) IN
    IF cob.tag # "Ok" THEN cob
    ELSE LET cat == cob.data.cat IN
    CASE cat = "NMTNodeControl" ->
            from_payload("NmtNodeControlFrame", "Rx", 0, frame.data)
      [] cat = "Sync" -> from_payload("SyncFrame", "Rx", 0, frame.data)
      [] cat = "Emergency" ->
            from_payload("EmergencyFrame", "Rx", cob.data.node_id, frame.data)
      [] cat = "TxSDO" ->
            from_payload("SdoFrame", "Tx", cob.data.node_id, frame.data)
      [] cat = "RxSDO" ->
            from_payload("SdoFrame", "Rx", cob.data.node_id, frame.data)
      [] cat = "NMTNodeMonitoring" ->
            from_payload("NmtNodeMonitoringFrame", "Rx", cob.data.node_id,
                         frame.data)
      [] OTHER -> NotImplemented

\* SdoFrame::new_sdo_read_frame(node_id, index, sub_index)
SdoFrame_new_sdo_read_frame(node_id, index, sub_index) ==
    SdoFrame_new("Rx", node_id,
                 WithAddress("InitiateUploadRequest", index, sub_index))

\* Mutation of SdoFrame_new_sdo_write_frame: the transfer is built unsized.
SdoFrame_new_sdo_write_frame_unsized(node_id, index, sub_index, data) ==
    SdoFrame_new("Rx", node_id,
                 WithTransferType("InitiateDownloadRequest", index, sub_index,
                                  Expedited(FALSE, data)))

\* Mutation of SdoFrame_new_sdo_write_frame: data beyond the fourth byte is
\* cut off at construction.
SdoFrame_new_sdo_write_frame_truncating(node_id, index, sub_index, data) ==
    SdoFrame_new("Rx", node_id,
                 WithTransferType("InitiateDownloadRequest", index, sub_index,
                                  Expedited(TRUE,
                                      SubSeq(data, 1,
                                             IF Len(data) > 4 THEN 4
                                             ELSE Len(data)))))

\* SdoFrame::new_sdo_write_frame(node_id, index, sub_index, data)
SdoFrame_new_sdo_write_frame(node_id, index, sub_index, data) ==
    SdoFrame_new("Rx", node_id,
                 WithTransferType("InitiateDownloadRequest", index, sub_index,
                                  Expedited(TRUE, data)))

\* ---- the boundary functions applied to requests and to CAN frames
MaxWriteData == 6   \* longest data handed to new_sdo_write_frame

\* Data handed to new_sdo_write_frame: of every length up to MaxWriteData
WriteData ==
    {[i \in 1..k |-> 10 * i] : k \in 0..MaxWriteData}
    \cup {[i \in 1..k |-> 256 - i] : k \in 0..MaxWriteData}
    \cup {[i \in 1..k |-> 0] : k \in 0..MaxWriteData}
    \cup {<<10, 6, 0, 0>>}

Address(node_id, index, sub_index) ==
    [node_id |-> node_id, index |-> index, sub_index |-> sub_index]

\* The arguments of the request builders: every node id with one object,
\* and one node with a sample of objects
RequestAddresses ==
    {Address(n, 4608, 1) : n \in NodeIDs}
    \cup {Address(3, i, s) : i \in IndexSample, s \in SubIndexSample}

\* Payloads of every length a CAN frame can carry
CanPayloads ==
    {[i \in 1..k |-> 0] : k \in 0..8}
    \cup {SubSeq(<<67, 24, 16, 2, 1, 2, 3, 4>>, 1, k) : k \in 1..8}
    \cup {<<1, 0>>, <<129, 1>>, <<1, 0, 0>>, <<5>>, <<5, 0>>}

\* The CAN frames of the sample: data frames with every standard
\* identifier, NMT control frames (every command byte, and every address
\* byte with each command), data frames with extended identifiers, remote
\* frames and error frames
CanFrames ==
    {DataFrame(Standard(raw), data) : raw \in 0..2047, data \in CanPayloads}
    \cup {DataFrame(Standard(0), <<c, a>>) :
            c \in U8, a \in {0, 1, 127, 128, 255}}
    \cup {DataFrame(Standard(0), <<c, a>>) :
            c \in {0, 1, 2, 128, 129, 130}, a \in U8}
    \cup {DataFrame(Extended(raw), data) :
            raw \in {0, 128, 1409, 2048, 536870911},
            data \in {<<>>, <<1, 0>>, <<67, 24, 16, 2, 1, 2, 3, 4>>}}
    \cup {RemoteFrame(id, dlc) :
            id \in {Standard(0), Standard(128), Standard(1409),
                    Standard(1793), Extended(2048)},
            dlc \in {0, 1, 8}}
    \cup {ErrorFrame(error_bits) : error_bits \in {1, 4, 64}}

BoundaryInit ==
    /\ HandlerInit
    /\ codec \in {Started("write", [address |-> a, data |-> d]) :
                    a \in RequestAddresses, d \in WriteData}
            \cup {Started("read", [address |-> a]) : a \in RequestAddresses}
            \cup {Started("try_from", frame) : frame \in CanFrames}

\* SdoFrame::new_sdo_write_frame(node_id, index, sub_index, data)
BuildWriteFrame ==
    /\ codec.fn = "write" /\ codec.stage = 0
    /\ codec' = [codec EXCEPT !.stage = 1,
                    !.mid = SdoFrame_new_sdo_write_frame(
                                codec.input.address.node_id,
                                codec.input.address.index,
                                codec.input.address.sub_index,
                                codec.input.data)]
    /\ UNCHANGED <<waiting_table, pc, key, chan, result, sent, next_frame,
                   nread, rx, resolvedBy, wire>>

\* SdoFrame::new_sdo_read_frame(node_id, index, sub_index)
BuildReadFrame ==
    /\ codec.fn = "read" /\ codec.stage = 0
    /\ codec' = [codec EXCEPT !.stage = 1,
                    !.mid = SdoFrame_new_sdo_read_frame(
                                codec.input.address.node_id,
                                codec.input.address.index,
                                codec.input.address.sub_index)]
    /\ UNCHANGED <<waiting_table, pc, key, chan, result, sent, next_frame,
                   nread, rx, resolvedBy, wire>>

\* frame.into(): the frame that was built is turned into a CAN frame
EncodeBuilt ==
    /\ codec.fn \in {"write", "read"} /\ codec.stage = 1
    /\ codec' = [codec EXCEPT !.stage = 2,
                              !.out = to_socketcan_frame(codec.mid)]
    /\ UNCHANGED <<waiting_table, pc, key, chan, result, sent, next_frame,
                   nread, rx, resolvedBy, wire>>

\* frame.try_into(): a CAN frame read from the bus is decoded
DecodeCanFrame ==
    /\ codec.fn = "try_from" /\ codec.stage = 0
    /\ codec' = [codec EXCEPT !.stage = 1,
                              !.mid = CanOpenFrame_try_from(codec.input)]
    /\ UNCHANGED <<waiting_table, pc, key, chan, result, sent, next_frame,
                   nread, rx, resolvedBy, wire>>

\* ... and, where that succeeded, the frame it gave is turned back into a
\* CAN frame
EncodeDecodedFrame ==
    /\ codec.fn = "try_from" /\ codec.stage = 1 /\ codec.mid.tag = "Ok"
    /\ codec' = [codec EXCEPT !.stage = 2,
                              !.out = to_socketcan_frame(codec.mid.data)]
    /\ UNCHANGED <<waiting_table, pc, key, chan, result, sent, next_frame,
                   nread, rx, resolvedBy, wire>>

BoundaryNext ==
    BuildWriteFrame \/ BuildReadFrame \/ EncodeBuilt \/ DecodeCanFrame
        \/ EncodeDecodedFrame

BoundarySpec == BoundaryInit /\ [][BoundaryNext]_vars

\* ---- C22 ----
\* For every node id, and data of n bytes with 1 <= n <= 4, the frame of
\* new_sdo_write_frame becomes a CAN data frame with the standard identifier
\* 0x600 + node and exactly 8 bytes: 0x23 | ((4 - n) << 2), the index low
\* byte first, the sub-index, the data, and zeros; 4 bytes give 0x23, 2 bytes
\* 0x2B and 1 byte 0x2F.  The frame of new_sdo_read_frame becomes
\* [0x40, index lo, index hi, sub-index, 0, 0, 0, 0] on the same identifier.
Zeros(n) == [i \in 1..n |-> 0]

C22_RequestBytes ==
    (codec.fn \in {"write", "read"} /\ codec.stage = 2) =>
        LET a == codec.input.address
            head == <<a.index % 256, a.index \div 256, a.sub_index>>
        IN  /\ codec.fn = "read" =>
                  codec.out = [tag |-> "Data",
                               id |-> [kind |-> "Standard",
                                       raw |-> 1536 + a.node_id],
                               data |-> <<64>> \o head \o Zeros(4)]
            /\ (codec.fn = "write" /\ Len(codec.input.data) \in 1..4) =>
                  LET n == Len(codec.input.data) IN
                  /\ codec.out = [tag |-> "Data",
                                  id |-> [kind |-> "Standard",
                                          raw |-> 1536 + a.node_id],
                                  data |-> <<35 + 4 * (4 - n)>> \o head
                                            \o codec.input.data \o Zeros(4 - n)]
                  /\ Len(codec.out.data) = 8
                  /\ n = 4 => codec.out.data[1] = 35
                  /\ n = 2 => codec.out.data[1] = 43
                  /\ n = 1 => codec.out.data[1] = 47

\* Writing [0x0A, 0x06, 0x00, 0x00] to index 0x1200 sub-index 1 of node 3
C22_Witness ==
    /\ codec.fn = "write" /\ codec.stage = 2
    /\ codec.input = [address |-> Address(3, 4608, 1), data |-> <<10, 6, 0, 0>>]
    /\ codec.out = DataFrame(Standard(1539), <<35, 0, 18, 1, 10, 6, 0, 0>>)

\* ---- C23 ----
\* new_sdo_write_frame takes data of any length and always returns a frame
\* that holds the data as given; for data longer than 4 bytes nothing fails
\* until the frame is encoded, and the encode then produces neither a CAN
\* frame nor an error value: it panics.
C23_OverlongWritePanicsAtEncode ==
    (codec.fn = "write" /\ codec.stage >= 1) =>
        /\ codec.mid =
              [type |-> "SdoFrame", direction |-> "Rx",
               node_id |-> codec.input.address.node_id,
               command |->
                  [variant |-> "InitiateDownloadRequest",
                   index |-> codec.input.address.index,
                   sub_index |-> codec.input.address.sub_index,
                   transfer_type |->
                      [variant |-> "Expedited", sized |-> TRUE,
                       data |-> codec.input.data]]]
        /\ (codec.stage = 2 /\ Len(codec.input.data) > 4) =>
              codec.out = [tag |-> "Panic"]
        /\ (codec.stage = 2 /\ Len(codec.input.data) <= 4) =>
              codec.out.tag = "Data"

\* Five bytes were accepted at construction and the encode panicked.
C23_Witness ==
    /\ codec.fn = "write" /\ codec.stage = 2
    /\ codec.input = [address |-> Address(3, 4120, 0),
                      data |-> <<10, 20, 30, 40, 50>>]
    /\ codec.mid.command.transfer_type.data = <<10, 20, 30, 40, 50>>
    /\ codec.out = Panic

\* ---- C24 ----
\* A data frame whose standard identifier is classified as a category that
\* has no body codec (GlobalFailsafeCommand 0x001, TimeStamp 0x100, the PDO
\* bands 0x180..0x57F, TxLss 0x7E4, RxLss 0x7E5) decodes to
\* Err(NotImplemented), whatever its payload, and so does every remote frame
\* and every error frame; a data frame with an extended identifier decodes
\* to Err(CanFdNotSupported); a data frame whose standard identifier is
\* classified as no category decodes to Err(InvalidCobId) with the
\* identifier.  None of these decodes panics or yields a frame.
BodylessCategories ==
    {"GlobalFailsafeCommand", "TimeStamp", "TxPDO1", "RxPDO1", "TxPDO2",
     "RxPDO2", "TxPDO3", "RxPDO3", "TxPDO4", "RxPDO4", "TxLSS", "RxLSS"}

BodylessId(raw) == raw \in {1, 256, 2020, 2021} \/ raw \in 384..1407

IsDecodedCanFrame == codec.fn = "try_from" /\ codec.stage >= 1

C24_UndecodedFramesAreErrors ==
    IsDecodedCanFrame =>
        LET frame == codec.input IN
        /\ codec.mid # [tag |-> "Panic"]
        /\ frame.tag \in {"Remote", "Error"} =>
              codec.mid = [tag |-> "Err", err |-> "NotImplemented"]
        /\ (frame.tag = "Data" /\ frame.id.kind = "Extended") =>
              codec.mid = [tag |-> "Err", err |-> "CanFdNotSupported"]
        /\ (frame.tag = "Data" /\ frame.id.kind = "Standard") =>
              LET cob == CommunicationObject_new(frame.id.raw) IN
              /\ BodylessId(frame.id.raw) =>
                    /\ cob.tag = "Ok" /\ cob.data.cat \in BodylessCategories
                    /\ codec.mid = [tag |-> "Err", err |-> "NotImplemented"]
              /\ (cob.tag = "Ok" /\ cob.data.cat \in BodylessCategories) =>
                    codec.mid = [tag |-> "Err", err |-> "NotImplemented"]
              /\ Unassigned(frame.id.raw) =>
                    codec.mid = [tag |-> "Err",
                                 err |-> [kind |-> "InvalidCobId",
                                          value |-> frame.id.raw]]
              /\ cob.tag = "Err" =>
                    codec.mid = [tag |-> "Err",
                                 err |-> [kind |-> "InvalidCobId",
                                          value |-> frame.id.raw]]

\* A frame of TxPDO1 of node 1, with a payload, was decoded.
C24_Witness ==
    /\ IsDecodedCanFrame
    /\ codec.input = DataFrame(Standard(385), <<67, 24, 16, 2, 1, 2, 3, 4>>)
    /\ codec.mid = NotImplemented

\* ---- C25 ----
\* Every kind of frame is decoded only from a payload of exactly its
\* length: 2 bytes on the NMT control identifier 0x000, 0 bytes on the Sync
\* identifier 0x080, 8 bytes on an emergency identifier 0x081..0x0FF, 8 bytes
\* on an SDO identifier 0x581..0x5FF or 0x601..0x67F, 1 byte on a heartbeat
\* identifier 0x701..0x77F; a data frame with one of these identifiers and
\* any other length decodes to Err(InvalidDataLength) with that length.
PayloadLength(raw) ==
    CASE raw = 0 -> 2
      [] raw = 128 -> 0
      [] raw \in 129..255 -> 8
      [] raw \in 1409..1535 -> 8
      [] raw \in 1537..1663 -> 8
      [] raw \in 1793..1919 -> 1

HasBodyCodec(raw) ==
    \/ raw \in {0, 128}
    \/ raw \in 129..255
    \/ raw \in 1409..1535
    \/ raw \in 1537..1663
    \/ raw \in 1793..1919

C25_ExactLength ==
    (/\ IsDecodedCanFrame
     /\ codec.input.tag = "Data"
     /\ codec.input.id.kind = "Standard"
     /\ HasBodyCodec(codec.input.id.raw)) =>
        LET data == codec.input.data
            n == PayloadLength(codec.input.id.raw)
        IN  /\ codec.mid.tag = "Ok" => Len(data) = n
            /\ Len(data) # n =>
                  /\ codec.mid.tag = "Err"
                  /\ codec.mid.err \in
                        {[kind |-> "InvalidDataLength", length |-> Len(data),
                          data_type |-> t] :
                            t \in {"NMTNodeControlFrame", "SyncFrame",
                                   "EmergencyFrame", "SdoFrame",
                                   "NmtNodeMonitoringFrame"}}

\* ---- C26 ----
\* The 2-byte payload [c, a] on the NMT control identifier decodes exactly
\* when c is one of 0x01, 0x02, 0x80, 0x81, 0x82 and a < 0x80, to the
\* command of c addressed to AllNodes for a = 0x00 and to Node(a)
\* otherwise; a c that is no command gives InvalidNmtCommand(c) whatever a
\* is, and a command with a >= 0x80 gives InvalidNodeId(a); the decoded
\* frame goes out on the identifier 0x000 whatever its address.
CommandOfByte(c) ==
    CASE c = 1 -> "Operational"
      [] c = 2 -> "Stopped"
      [] c = 128 -> "PreOperational"
      [] c = 129 -> "ResetNode"
      [] c = 130 -> "ResetCommunication"

C26_NmtControlDecode ==
    (/\ IsDecodedCanFrame
     /\ codec.input.tag = "Data"
     /\ codec.input.id = [kind |-> "Standard", raw |-> 0]
     /\ Len(codec.input.data) = 2) =>
        LET c == codec.input.data[1]
            a == codec.input.data[2]
            valid == c \in {1, 2, 128, 129, 130}
        IN  /\ codec.mid.tag = "Ok" <=> (valid /\ a < 128)
            /\ (valid /\ a < 128) =>
                  codec.mid.data =
                     [type |-> "NmtNodeControlFrame",
                      command |-> CommandOfByte(c),
                      address |-> IF a = 0 THEN [kind |-> "AllNodes"]
                                  ELSE [kind |-> "Node", node_id |-> a]]
            /\ ~valid =>
                  codec.mid = [tag |-> "Err",
                               err |-> [kind |-> "InvalidNMTCommand",
                                        value |-> c]]
            /\ (valid /\ a >= 128) =>
                  codec.mid = [tag |-> "Err",
                               err |-> [kind |-> "InvalidNodeId",
                                        value |-> a]]
            /\ codec.stage = 2 =>
                  /\ codec.out.tag = "Data"
                  /\ codec.out.id = [kind |-> "Standard", raw |-> 0]

\* Neither byte is valid: the error is the command's.
C26_Witness ==
    /\ IsDecodedCanFrame
    /\ codec.input = DataFrame(Standard(0), <<255, 255>>)
    /\ codec.mid = Err([kind |-> "InvalidNMTCommand", value |-> 255])

\* ---- C27 ----
\* NodeID::new(raw) fails, with InvalidNodeId(raw), exactly when bit 7 of
\* raw is set; it succeeds for every raw in 0..127, 0 included; and as_raw
\* of the NodeID it returns is raw.
C27_NodeIdHighBitOnly ==
    (codec.fn = "node_id" /\ codec.stage >= 1) =>
        LET raw == codec.input IN
        /\ codec.mid.tag = "Err" <=> Bit(raw, 7) = 1
        /\ Bit(raw, 7) = 1 =>
              codec.mid = [tag |-> "Err",
                           err |-> [kind |-> "InvalidNodeId", value |-> raw]]
        /\ raw \in 0..127 => codec.mid.tag = "Ok"
        /\ codec.stage = 2 => codec.out = raw

\* 0 was accepted and read back.
C27_Witness ==
    /\ codec.fn = "node_id" /\ codec.stage = 2
    /\ codec.input = 0
    /\ codec.mid.tag = "Ok"
    /\ codec.out = 0

\* ---- C28 ----
\* A run in which, so far, no sdo_read future was dropped and no send failed
Undisturbed ==
    \A c \in Calls : pc[c] # "dropped" /\ result[c] # Err("Transport")

\* C28 as stated: in such a run every Sender in the table belongs to one
\* call that is suspended waiting on its Receiver.
C28_StoredSignalHasSuspendedWaiter ==
    Undisturbed =>
        \A k \in Keys :
            waiting_table[k] # 0 =>
                /\ key[waiting_table[k]] = k
                /\ pc[waiting_table[k]] = "awaiting"

\* C28 as amended: in such a run every Sender in the table belongs to
\* exactly one call, which has not returned and holds the Receiver of an
\* open channel: the call is either between its registration and the end of
\* its send_frame, or suspended waiting on the Receiver.  So the send of the
\* background task on a Sender it removed never fails, the task keeps
\* running, and the call it resolved returns the data when it reaches, or
\* is woken from, its wait.
C28_Inv ==
    Undisturbed =>
        /\ \A k \in Keys :
              waiting_table[k] # 0 =>
                  /\ key[waiting_table[k]] = k
                  /\ pc[waiting_table[k]] \in {"registered", "awaiting"}
                  /\ chan[waiting_table[k]] = Open
        /\ \A c \in Calls : chan[c].state # "failed"
        /\ rx # "send failed"
        /\ \A c \in Calls :
              (pc[c] = "awaiting" /\ chan[c].state = "sent") =>
                  ENABLED response_receiver_await(c)

C28_Step ==
    \A c \in Calls :
        (/\ Undisturbed
         /\ ReceiverStep
         /\ Registered(c)
         /\ waiting_table[key[c]] = c
         /\ waiting_table'[key[c]] = 0) =>
            /\ ReceiverAlive(c)
            /\ chan'[c] = [state |-> "sent", value |-> next_frame.frame.data]
            /\ rx' = "running"

C28_StoredSignalHasLiveReceiver == []C28_Inv /\ [][C28_Step]_vars

\* One call was resolved before it had sent its request and returned the
\* data afterwards; the Sender of the other is in the table while that call
\* is still in its send.
C28_Witness ==
    /\ Undisturbed
    /\ resolvedBy[1].idx = 1
    /\ pc[1] = "done" /\ result[1].tag = "Ok"
    /\ pc[2] = "registered" /\ waiting_table[key[2]] = 2
    /\ rx = "running"

\* ---- C29 ----
\* When the background task reads an SDO frame whose address has an entry
\* whose Receiver is gone (the future of the call was dropped, or the call
\* returned the error of its failed send and left the entry behind), it
\* removes the entry, its send on the Sender fails and the task ends, with
\* no call resolved.  Once the task has ended that way it stays ended: it
\* reads no frame any more and no call, pending or registered later, is
\* ever resolved, while calls still register and send.
WaiterGone(c) ==
    /\ Registered(c)
    /\ waiting_table[key[c]] = c
    /\ ~ReceiverAlive(c)

C29_Step ==
    /\ \A c \in Calls :
          (ReceiverStep /\ WaiterGone(c) /\ CarriesKey(next_frame, key[c])) =>
                /\ waiting_table'[key[c]] = 0
                /\ chan'[c].state = "failed"
                /\ rx' = "send failed"
                /\ resolvedBy' = resolvedBy
    /\ rx = "send failed" =>
          /\ rx' = rx
          /\ nread' = nread
          /\ resolvedBy' = resolvedBy
          /\ \A c \in Calls : chan'[c].state = "sent" => chan[c].state = "sent"

C29_Inv ==
    /\ \A c \in Calls :
          WaiterGone(c) =>
              \/ pc[c] = "dropped"
              \/ (pc[c] = "done" /\ result[c] = Err("Transport"))
    /\ rx = "send failed" =>
          /\ \E c \in Calls : chan[c].state = "failed" /\ ~ReceiverAlive(c)
          /\ \A c \in Calls :
                /\ (pc[c] = "awaiting" /\ chan[c] = Open) =>
                      ~ENABLED response_receiver_await(c)
                /\ pc[c] = "registered" => ENABLED send_frame_ok(c)

C29_GoneWaiterEndsReceiver == []C29_Inv /\ [][C29_Step]_vars

\* The first call returned the error of its send; a frame for its address
\* ended the task; the second call registered and sent afterwards, and the
\* response for it sits unread.
C29_Witness ==
    /\ result[1] = Err("Transport")
    /\ chan[1].state = "failed"
    /\ waiting_table[key[1]] # 1
    /\ rx = "send failed"
    /\ nread = 1
    /\ pc[2] = "awaiting" /\ chan[2] = Open /\ 2 \in sent
    /\ next_frame = [ok |-> TRUE, frame |-> InitiateUploadResponse(key[2])]

\* ---- C30 ----
\* The table is keyed by (node_id, index, sub_index) alone and holds, for an
\* address, only the Sender of the call that registered it last.  When
\* several calls have registered one address, an SDO frame with that address
\* is handed to the last of them and to no earlier one: it resolves that
\* call when the call is still there to receive it, whether or not that
\* call's own request has been sent and whichever requests were sent before;
\* an earlier call is never resolved by it.
RegisteredFor(k) == {c \in Calls : Registered(c) /\ key[c] = k}

\* Calls are numbered in the order in which they register.
Latest(k) == CHOOSE c \in RegisteredFor(k) : \A b \in RegisteredFor(k) : b <= c

C30_Inv ==
    \A k \in Keys :
        waiting_table[k] # 0 => waiting_table[k] = Latest(k)

C30_Step ==
    \A k \in Keys :
        (/\ ReceiverStep
         /\ CarriesKey(next_frame, k)
         /\ Cardinality(RegisteredFor(k)) >= 2) =>
            /\ \A b \in RegisteredFor(k) :
                  b # Latest(k) =>
                      /\ resolvedBy'[b] = resolvedBy[b]
                      /\ chan'[b] = chan[b]
            /\ waiting_table[k] # 0 =>
                  /\ waiting_table'[k] = 0
                  /\ IF ReceiverAlive(Latest(k))
                     THEN /\ resolvedBy'[Latest(k)] =
                                [idx |-> nread', frame |-> next_frame]
                          /\ chan'[Latest(k)] =
                                [state |-> "sent",
                                 value |-> next_frame.frame.data]
                     ELSE chan'[Latest(k)].state = "failed"

C30_LatestRegistrationWins == []C30_Inv /\ [][C30_Step]_vars

\* Two calls on one address: only the first has sent its request, and the
\* response was given to the second, which has not sent anything yet.
C30_Witness ==
    /\ key[1] = key[2]
    /\ 1 \in sent /\ 2 \notin sent
    /\ pc[2] = "registered"
    /\ resolvedBy[2] =
          [idx |-> 1,
           frame |-> [ok |-> TRUE, frame |-> InitiateUploadResponse(key[1])]]
    /\ ~Resolved(1)
    /\ chan[1].state = "cancelled"

====
